---- MODULE Spec2Model ----
(***************************************************************************)
(* Verification model of the MobileAgents backend observation engine:      *)
(* the pane registry, the observer daemon (discovery, debounced streaming  *)
(* emission, polling), the control-mode session client and the session     *)
(* manager.  Each component has its own specification over its own         *)
(* variables; the variables of the other components stay unchanged.        *)
(***************************************************************************)
EXTENDS Integers, Sequences, FiniteSets, TLC

VARIABLES
    panes,      \* PaneRegistry._panes: pane_id -> PaneState (a dict: DOMAIN = keys)
    lastCall,   \* the registry call that produced this state, with its arguments and result
    mode,       \* ObserverDaemon._mode
    topology,   \* the multiplexer: session name -> pane ids listed under its windows
    disc,       \* the _discover_panes run of the discovery task, at its suspension point
    tasks,      \* the live debounce tasks created by _schedule_update_event
    received,   \* per registered callback, the events it has been called with, in order
    bursts,     \* per pane, output bursts since the pane was registered
    updates,    \* per pane, pane_update events emitted since the pane was registered
    client,     \* one ControlModeClient: its fields, its reader task and a stop() in progress
    wire,       \* the client's child process, the messages it has written, stop() returned
    mgr,        \* the SessionManager: its lock, its clients and its coroutines
    obs,        \* the ObserverDaemon's lifecycle: start(), stop() and its background tasks
    fn,         \* a pure function under check: its input and its result
    refs,       \* what a caller of the registry holds: a returned value, a list it passed
    screen,     \* the content of the pane in the multiplexer, where a specification follows it
    api,        \* the send-input route: the last request and the response it got
    raises      \* the callbacks that raises: the last one, and how many calls raises

regVars == <<panes, lastCall>>
obsVars == <<mode, topology, disc, tasks, received, bursts, updates>>
cliVars == <<client, wire>>
mgrVars == <<mgr>>
auxVars == <<obs, fn, refs, screen, api, raises>>
vars == <<panes, lastCall, mode, topology, disc, tasks, received, bursts, updates,
          client, wire, mgr, obs, fn, refs, screen, api, raises>>

(***************************************************************************)
(* Bounds of the model.                                                    *)
(***************************************************************************)
\* longest %output payload fed to append_output, in characters
MaxData == 2
\* longest stored line, in characters (guards append_output's concatenation)
MaxLineLen == 2
\* rows of the visible pane: capture-pane -S -N returns N history rows plus these
PaneHeight == 1
\* events delivered to a subscriber in one behaviour
MaxEvents == 3
\* output bursts counted per pane registration
MaxBursts == 2
\* commands a client sends, and messages its reader reads, in a behaviour
MaxCmd == 2
MaxLog == 6
\* changes of the multiplexer's session list, and discovery runs of the session
\* manager (start or refresh_sessions), in a behaviour
MaxChanges == 2
MaxRuns == 2
\* readers that end on EOF in a behaviour
MaxEOFs == 2
\* start() and stop() calls of the observer, readers it loses and polls it makes,
\* in a behaviour
MaxCalls == 4
MaxLost == 1
MaxPolls == 1
\* longest string given to escape_input and unescape_output, in characters
MaxStr == 4
\* callback calls that raise, in a behaviour that counts them
MaxRaises == 1
\* changes of the pane's content in a behaviour that follows it
MaxScreen == 1
\* ticks of the polling loop in a behaviour that follows it
MaxTicks == 2
\* lines given to the parser
MaxParse == 6

(***************************************************************************)
(* Program constants (the line caps are scaled down from 500).             *)
(***************************************************************************)
\* Settings.capture_lines / ObserverDaemon.capture_lines: the configured line cap
capture_lines == 2
\* append_output's max_lines default
max_lines == 2
\* _poll_pane hashes the last 50 captured lines: scaled down with the line caps
hash_lines == 1

\* SessionManager.reconnect_delay (default 1.0 s)
reconnect_delay == 1
\* SessionManager.max_reconnect_attempts (constructor argument, default 5)
max_reconnect_attempts == 2
PaneIds == {"%0", "%1"}
\* the pane ids the registry's callers use in the registry specification
RegPaneIds == {"%0"}
\* pane ids that exist in the multiplexer of the observer specifications
ObsPaneIds == {"%0"}
PaneStatus == {"running", "waiting_input", "idle", "exited"}
\* output fingerprints: "" is the hash of streaming mode, the others are sha256 digests
Hashes == {"", "h1", "h2"}
\* Optional[T]: None is the empty sequence, a value x is <<x>>
None == <<>>
Some(x) == <<x>>
\* InputRequest values, by input_type
InputRequests == {"text", "choice"}
Chars == {"a", "\n"}

\* sequences over S of length at most n
RECURSIVE SeqsUpTo(_, _)
SeqsUpTo(S, n) ==
    IF n = 0 THEN {<<>>}
    ELSE LET shorter == SeqsUpTo(S, n - 1)
         IN shorter \cup {<<x>> \o s : x \in S, s \in {t \in shorter : Len(t) = n - 1}}

\* %output payloads
DataChunks == SeqsUpTo(Chars, MaxData)
\* lines a capture can return or a caller can pass: rows of text without newline
TextLines == {<<>>, <<"a">>}
LineLists == SeqsUpTo(TextLines, capture_lines + PaneHeight)

\* PaneState as constructed by the observer on discovery (pane.py defaults)
NewPaneState ==
    [status |-> "running", last_output_hash |-> "", last_lines |-> <<>>,
     input_request |-> None]

\* str.split('\n'): the segments between newlines, at least one
RECURSIVE Split(_)
Split(s) ==
    IF s = <<>> THEN << <<>> >>
    ELSE LET rest == Split(Tail(s))
         IN IF Head(s) = "\n" THEN << <<>> >> \o rest
            ELSE << <<Head(s)>> \o Head(rest) >> \o Tail(rest)

\* lst[-n:] for n >= 1
LastN(lst, n) ==
    IF Len(lst) > n THEN SubSeq(lst, Len(lst) - n + 1, Len(lst)) ELSE lst

(***************************************************************************)
(* PaneRegistry operations: each maps the registry P to the new registry   *)
(* and the value returned.                                                  *)
(***************************************************************************)
update(P, pane_id, state) ==
    [panes |-> [q \in DOMAIN P \cup {pane_id} |-> IF q = pane_id THEN state ELSE P[q]],
     ret |-> TRUE]

update_output(P, pane_id, lines, output_hash) ==
    IF pane_id \notin DOMAIN P THEN [panes |-> P, ret |-> FALSE]
    ELSE IF P[pane_id].last_output_hash = output_hash THEN [panes |-> P, ret |-> FALSE]
    ELSE [panes |-> [P EXCEPT ![pane_id].last_lines = lines,
                              ![pane_id].last_output_hash = output_hash],
          ret |-> TRUE]

append_output(P, pane_id, new_data, maxl) ==
    IF pane_id \notin DOMAIN P THEN [panes |-> P, ret |-> FALSE]
    ELSE IF new_data = <<>> THEN [panes |-> P, ret |-> TRUE]
    ELSE LET old == P[pane_id].last_lines
             new_lines == Split(new_data)
             joined == IF old # <<>>
                       THEN [old EXCEPT ![Len(old)] = @ \o new_lines[1]] \o Tail(new_lines)
                       ELSE new_lines
         IN [panes |-> [P EXCEPT ![pane_id].last_lines = LastN(joined, maxl),
                                 ![pane_id].last_output_hash = ""],
             ret |-> TRUE]

get_output(P, pane_id) ==
    IF pane_id \notin DOMAIN P THEN <<>> ELSE P[pane_id].last_lines

update_status(P, pane_id, status) ==
    IF pane_id \notin DOMAIN P THEN [panes |-> P, ret |-> FALSE]
    ELSE IF P[pane_id].status = status THEN [panes |-> P, ret |-> FALSE]
    ELSE [panes |-> [P EXCEPT ![pane_id].status = status], ret |-> TRUE]

set_input_request(P, pane_id, request) ==
    IF pane_id \notin DOMAIN P THEN [panes |-> P, ret |-> FALSE]
    ELSE [panes |-> [P EXCEPT ![pane_id].input_request = request,
                              ![pane_id].status =
                                  IF request # None THEN "waiting_input" ELSE @],
          ret |-> TRUE]

\* a clear that drops the request and leaves the status as it is
clear_request_only(P, pane_id) ==
    IF pane_id \notin DOMAIN P THEN [panes |-> P, ret |-> FALSE]
    ELSE [panes |-> [P EXCEPT ![pane_id].input_request = None], ret |-> TRUE]

clear_input_request(P, pane_id) ==
    IF pane_id \notin DOMAIN P THEN [panes |-> P, ret |-> FALSE]
    ELSE [panes |-> [P EXCEPT ![pane_id].input_request = None,
                              ![pane_id].status = "running"],
          ret |-> TRUE]

remove(P, pane_id) ==
    IF pane_id \in DOMAIN P
    THEN [panes |-> [q \in DOMAIN P \ {pane_id} |-> P[q]], ret |-> TRUE]
    ELSE [panes |-> P, ret |-> FALSE]

clear(P) == [panes |-> <<>>, ret |-> TRUE]

(***************************************************************************)
(* The registry under arbitrary callers.                                    *)
(***************************************************************************)
NoArgs == [lines |-> <<>>, output_hash |-> "", known |-> FALSE]

Call(op, pane_id, args, r) ==
    /\ UNCHANGED <<obsVars, cliVars, mgrVars, auxVars>>
    /\ panes' = r.panes
    /\ lastCall' = [op |-> op, pane_id |-> pane_id, ret |-> r.ret,
                    lines |-> args.lines, output_hash |-> args.output_hash,
                    known |-> pane_id \in DOMAIN panes]

NoCall ==
    [op |-> "init", pane_id |-> "%0", ret |-> TRUE,
     lines |-> <<>>, output_hash |-> "", known |-> FALSE]

\* the observer as constructed and never started
ObsIdle ==
    /\ mode = "none"
    /\ topology = <<>>
    /\ disc = <<>>
    /\ tasks = {}
    /\ received = <<>>
    /\ bursts = <<>>
    /\ updates = <<>>

\* a specification that follows neither a control-mode client nor the session manager
\* leaves their variables empty
CtlIdle ==
    /\ client = <<>>
    /\ wire = <<>>
    /\ mgr = <<>>

\* likewise for the observer's lifecycle and the pure functions
AuxIdle ==
    /\ obs = <<>>
    /\ fn = <<>>
    /\ refs = <<>>
    /\ screen = <<>>
    /\ api = <<>>
    /\ raises = <<>>

RegInit ==
    /\ panes = <<>>
    /\ lastCall = NoCall
    /\ ObsIdle
    /\ CtlIdle
    /\ AuxIdle

\* the states callers insert: a fresh PaneState (the observer on discovery), or one
\* already waiting for input with its request (as the registry tests insert)
InsertStates ==
    {NewPaneState,
     [NewPaneState EXCEPT !.status = "waiting_input", !.input_request = Some("text")]}

RegUpdate ==
    \E id \in RegPaneIds, state \in InsertStates :
        Call("update", id, NoArgs, update(panes, id, state))

RegUpdateOutput ==
    \E id \in RegPaneIds, lines \in LineLists, h \in Hashes :
        Call("update_output", id, [lines |-> lines, output_hash |-> h],
             update_output(panes, id, lines, h))

RegAppendOutput ==
    \E id \in RegPaneIds, data \in DataChunks :
        LET r == append_output(panes, id, data, max_lines)
        IN /\ \A q \in DOMAIN r.panes :
                  \A i \in 1..Len(r.panes[q].last_lines) :
                      Len(r.panes[q].last_lines[i]) <= MaxLineLen
           /\ Call("append_output", id, NoArgs, r)

RegUpdateStatus ==
    \E id \in RegPaneIds, s \in PaneStatus :
        Call("update_status", id, NoArgs, update_status(panes, id, s))

RegSetInputRequest ==
    \E id \in RegPaneIds, req \in {None} \cup {Some(x) : x \in InputRequests} :
        Call("set_input_request", id, NoArgs, set_input_request(panes, id, req))

RegClearInputRequest ==
    \E id \in RegPaneIds :
        Call("clear_input_request", id, NoArgs, clear_input_request(panes, id))

RegRemove ==
    \E id \in RegPaneIds : Call("remove", id, NoArgs, remove(panes, id))

RegClear == Call("clear", "%0", NoArgs, clear(panes))

RegNext ==
    \/ RegUpdate
    \/ RegUpdateOutput
    \/ RegAppendOutput
    \/ RegUpdateStatus
    \/ RegSetInputRequest
    \/ RegClearInputRequest
    \/ RegRemove
    \/ RegClear

SpecRegistry == RegInit /\ [][RegNext]_vars

(***************************************************************************)
(* Registry claims.                                                         *)
(***************************************************************************)
\* C1: after any sequence of registry mutators, every registry entry has an
\* input_request if and only if its status is waiting_input.
C1_InputRequestIffWaiting ==
    \A id \in DOMAIN panes :
        (panes[id].input_request # None) <=> (panes[id].status = "waiting_input")

\* C2: after any sequence of append_output and update_output calls the number of
\* lines stored for a pane is at most the configured line cap (capture_lines).
C2_LineCap ==
    \A id \in DOMAIN panes : Len(panes[id].last_lines) <= capture_lines

\* C3: for a registered pane update_output(id, lines, h) returns false exactly when
\* h equals the stored hash and h is not "", and then leaves the entry unchanged;
\* otherwise (also for h = "" with stored hash "") it returns true and the stored
\* lines and hash become lines and h.  For an unknown pane it returns false and
\* creates no entry.
C3_UpdateOutputStep ==
    lastCall'.op = "update_output" =>
        LET id == lastCall'.pane_id
            h == lastCall'.output_hash
            lines == lastCall'.lines
            ret == lastCall'.ret
        IN IF id \in DOMAIN panes
           THEN /\ (ret = FALSE) <=> (h = panes[id].last_output_hash /\ h # "")
                /\ (ret = FALSE) => (panes' = panes)
                /\ (ret = TRUE) =>
                       /\ panes'[id].last_lines = lines
                       /\ panes'[id].last_output_hash = h
           ELSE ret = FALSE /\ panes' = panes

C3_UpdateOutputContract == [][C3_UpdateOutputStep]_vars

(***************************************************************************)
(* InputParser: lines are sequences of tokens; the marker and the field    *)
(* keywords are single tokens, "a" is ordinary text, " " is white space.   *)
(***************************************************************************)
INPUT_MARKER == "[INPUT_REQUIRED]"
InputTypes == {"text", "choice", "confirm"}

Contains(line, tok) == \E i \in 1..Len(line) : line[i] = tok

\* str.strip() / str.lstrip() on a token line
RECURSIVE LStrip(_)
LStrip(line) ==
    IF line # <<>> /\ Head(line) = " " THEN LStrip(Tail(line)) ELSE line

RECURSIVE RStrip(_)
RStrip(line) ==
    IF line # <<>> /\ line[Len(line)] = " "
    THEN RStrip(SubSeq(line, 1, Len(line) - 1)) ELSE line

Strip(line) == RStrip(LStrip(line))

\* has_input_marker: some line contains the marker
has_input_marker(lines) == \E i \in 1..Len(lines) : Contains(lines[i], INPUT_MARKER)

\* _extract_block: from the marker line, at most 20 lines; marker lines are skipped,
\* blank lines are skipped until content was seen and end the block afterwards
RECURSIVE ExtractFrom(_, _, _, _)
ExtractFrom(lines, i, last, found) ==
    IF i > last THEN <<>>
    ELSE LET line == Strip(lines[i])
         IN IF Contains(line, INPUT_MARKER) THEN ExtractFrom(lines, i + 1, last, found)
            ELSE IF line = <<>>
                 THEN IF found THEN <<>> ELSE ExtractFrom(lines, i + 1, last, found)
                 ELSE <<line>> \o ExtractFrom(lines, i + 1, last, TRUE)

BlockSpan == 20

extract_block(lines, marker_index) ==
    ExtractFrom(lines, marker_index,
                IF marker_index + BlockSpan - 1 < Len(lines)
                THEN marker_index + BlockSpan - 1 ELSE Len(lines), FALSE)

\* the regular expressions of the parser, on token lines
TypeMatch(line) ==
    line # <<>> /\ Head(line) = "TYPE:" /\ LStrip(Tail(line)) # <<>>
        /\ Head(LStrip(Tail(line))) \in InputTypes
\* KEY:\s*(.+): the keyword and at least one more character
RestMatch(line, key) == line # <<>> /\ Head(line) = key /\ Tail(line) # <<>>
OptionsMatch(line) == line # <<>> /\ Head(line) = "OPTIONS:" /\ LStrip(Tail(line)) = <<>>
OptionLineMatch(line) ==
    LStrip(line) # <<>> /\ Head(LStrip(line)) = "1)" /\ LStrip(Tail(LStrip(line))) # <<>>

\* _parse_block's loop: the fields found from block[i] on, starting from acc
RECURSIVE ParseFields(_, _, _)
RECURSIVE TakeOptions(_, _, _)
TakeOptions(block, i, acc) ==
    IF i <= Len(block) /\ OptionLineMatch(block[i])
    THEN TakeOptions(block, i + 1,
             [acc EXCEPT !.options = Some(acc.options[1] \o
                                          <<Strip(Tail(LStrip(block[i])))>>)])
    ELSE ParseFields(block, i, acc)

ParseFields(block, i, acc) ==
    IF i > Len(block) THEN acc
    ELSE LET line == block[i]
         IN IF TypeMatch(line)
            THEN ParseFields(block, i + 1,
                     [acc EXCEPT !.input_type = Some(Head(LStrip(Tail(line))))])
            ELSE IF RestMatch(line, "PROMPT:")
            THEN ParseFields(block, i + 1, [acc EXCEPT !.prompt = Some(Strip(Tail(line)))])
            ELSE IF RestMatch(line, "MESSAGE:")
            THEN ParseFields(block, i + 1, [acc EXCEPT !.message = Some(Strip(Tail(line)))])
            ELSE IF OptionsMatch(line)
            THEN TakeOptions(block, i + 1, [acc EXCEPT !.options = Some(<<>>)])
            ELSE ParseFields(block, i + 1, acc)

\* an inference that looks at the prompt first, then the message, then the options
parse_block_prompt_first(block) ==
    IF block = <<>> THEN None
    ELSE LET f == ParseFields(block, 1, [input_type |-> None, prompt |-> None,
                                          message |-> None, options |-> None])
             has_options == f.options # None /\ f.options[1] # <<>>
             opts == IF has_options THEN f.options ELSE None
         IN IF f.input_type # None
            THEN Some([f EXCEPT !.input_type = f.input_type[1], !.options = opts])
            ELSE IF f.prompt # None /\ f.prompt[1] # <<>>
            THEN Some([f EXCEPT !.input_type = "text", !.options = opts])
            ELSE IF f.message # None /\ f.message[1] # <<>>
            THEN Some([f EXCEPT !.input_type = "confirm", !.options = opts])
            ELSE IF has_options THEN Some([f EXCEPT !.input_type = "choice", !.options = opts])
            ELSE None

parse_block(block) ==
    IF block = <<>> THEN None
    ELSE LET f == ParseFields(block, 1, [input_type |-> None, prompt |-> None,
                                          message |-> None, options |-> None])
             has_options == f.options # None /\ f.options[1] # <<>>
             opts == IF has_options THEN f.options ELSE None
         IN IF f.input_type # None
            THEN Some([f EXCEPT !.input_type = f.input_type[1], !.options = opts])
            ELSE IF has_options THEN Some([f EXCEPT !.input_type = "choice", !.options = opts])
            ELSE IF f.message # None /\ f.message[1] # <<>>
            THEN Some([f EXCEPT !.input_type = "confirm", !.options = opts])
            ELSE IF f.prompt # None /\ f.prompt[1] # <<>>
            THEN Some([f EXCEPT !.input_type = "text", !.options = opts])
            ELSE None

\* parse: the block after the last line that contains the marker
parse(lines) ==
    IF ~has_input_marker(lines) THEN None
    ELSE LET marker_index ==
                 CHOOSE i \in 1..Len(lines) :
                     /\ Contains(lines[i], INPUT_MARKER)
                     /\ \A j \in (i + 1)..Len(lines) : ~Contains(lines[j], INPUT_MARKER)
         IN parse_block(extract_block(lines, marker_index))

(***************************************************************************)
(* The multiplexer as the observer's shim sees it.                          *)
(***************************************************************************)
Sessions == {"s1", "s2"}
SessionOrder == <<"s1", "s2">>
PaneOrder == <<"%0", "%1">>

\* list_panes over the windows of one session: the panes listed under it, in order
list_panes(topo, session) ==
    SelectSeq(PaneOrder, LAMBDA p : p \in topo[session])

\* discover_all_panes: the listings of all sessions, concatenated
RECURSIVE ListFrom(_, _)
ListFrom(topo, i) ==
    IF i > Len(SessionOrder) THEN <<>>
    ELSE list_panes(topo, SessionOrder[i]) \o ListFrom(topo, i + 1)

discover_all_panes(topo) == ListFrom(topo, 1)

\* pane ids of a listing
Ids(tmux_panes) == {tmux_panes[i] : i \in 1..Len(tmux_panes)}

\* panes that exist in the multiplexer
LivePanes == UNION {topology[s] : s \in Sessions}

\* results of capture_pane in the observer specifications: rows, or an exception
ObsCaptures ==
    {<<>>, << <<"a">> >>, << <<INPUT_MARKER>> >>, << <<INPUT_MARKER>>, <<"PROMPT:", "a">> >>}
CaptureFailed == << <<"TmuxError">> >>
\* results of get_cursor_position: None, or (cursor_x, cursor_y, pane_height)
CursorResults == {None, Some(<<1, 0, 1>>)}
\* what capture_pane and the cursor query give: where the pane's content is
\* followed, the content (the captures succeed); else any rows, or a failure
CaptureResults ==
    IF screen = <<>> THEN ObsCaptures \cup {CaptureFailed} ELSE {screen.content}
CursorOutcomes ==
    IF screen = <<>> THEN CursorResults \cup {CaptureFailed} ELSE CursorResults
\* %output payloads in the observer specifications
ObsData == {<<"a">>}

\* cursor_x, cursor_y from a cursor query result (observer.py:256-263)
CursorOf(cursor_pos, lines) ==
    IF cursor_pos # None
    THEN LET c == cursor_pos[1]
             visible_start == IF Len(lines) - c[3] > 0 THEN Len(lines) - c[3] ELSE 0
         IN <<c[1], visible_start + c[2]>>
    ELSE <<0, 0>>

(***************************************************************************)
(* Events and their delivery.  _emit_event calls the callbacks in order    *)
(* and awaits each; a callback suspends (it writes to its client) before   *)
(* it returns, so other tasks run between two callbacks of one event.      *)
(***************************************************************************)
callbacks == <<"cb1", "cb2">>
NumCallbacks == Len(callbacks)

Event(kind, pane_id, status, lines, req, cur) ==
    [event |-> kind, pane_id |-> pane_id, status |-> status, lines |-> lines,
     input_request |-> req, cursor_x |-> cur[1], cursor_y |-> cur[2]]

PaneDiscoveryEvent(pane_id) == Event("pane_discovered", pane_id, "running", <<>>, None, <<0, 0>>)
PaneRemovedEvent(pane_id) == Event("pane_removed", pane_id, "running", <<>>, None, <<0, 0>>)
PaneUpdateEvent(P, pane_id, lines, cur) ==
    Event("pane_update", pane_id, P[pane_id].status, lines, P[pane_id].input_request, cur)
NoEvent == Event("none", "%0", "running", <<>>, None, <<0, 0>>)

\* callback k is called with ev
Deliver(recv, k, ev) == [recv EXCEPT ![k] = Append(@, ev)]

\* an awaited callback returns or raises an Exception
CallbackOutcomes == {"returned", "raised"}
\* try: await callback(...) / except Exception: logger.error(...): the caller goes
\* on after either outcome
ContinuesIfReturned(outcome) == outcome = "returned"
Continues(outcome) == outcome \in {"returned", "raised"}
\* no callback has raises; raises = <<>> where the raises are not counted
NoRaise == [by |-> "none", n |-> 0]
MayRaise == IF raises = <<>> THEN TRUE ELSE raises.n < MaxRaises
Raise(name, outcome) ==
    IF raises = <<>> \/ outcome # "raised" THEN raises
    ELSE [by |-> name, n |-> raises.n + 1]
\* the model follows an emission only while the first callback's log has room
CanEmit == Len(received[1]) < MaxEvents

(***************************************************************************)
(* Discovery: _discover_panes / _add_pane / _remove_pane.                   *)
(***************************************************************************)
IdleRun ==
    [pc |-> "idle", tmux_panes |-> <<>>, idx |-> 1, new_ids |-> {}, removed_ids |-> {},
     cur |-> "%0", cb |-> 0, ev |-> NoEvent, K |-> {}, emitted |-> <<>>, ran |-> FALSE]

ResetCount(f, pane_id) == [f EXCEPT ![pane_id] = 0]

\* the run from the loop position r.idx up to its next suspension point, from
\* registry P: the next new pane is inserted (and captured first in control mode,
\* else announced); after the new panes each removed pane is dropped and announced
DiscContinue(P, r) ==
    IF \E i \in r.idx..Len(r.tmux_panes) : r.tmux_panes[i] \in r.new_ids
    THEN LET i == CHOOSE i \in r.idx..Len(r.tmux_panes) :
                      /\ r.tmux_panes[i] \in r.new_ids
                      /\ \A j \in r.idx..(i - 1) : r.tmux_panes[j] \notin r.new_ids
             pane_id == r.tmux_panes[i]
             P1 == update(P, pane_id, NewPaneState).panes
             ev == PaneDiscoveryEvent(pane_id)
         IN /\ panes' = P1
            /\ bursts' = ResetCount(bursts, pane_id)
            /\ updates' = ResetCount(updates, pane_id)
            /\ IF mode = "control_mode"
               THEN /\ disc' = [r EXCEPT !.pc = "add_capture", !.idx = i + 1, !.cur = pane_id]
                    /\ received' = received
               ELSE /\ CanEmit
                    /\ disc' = [r EXCEPT !.pc = "emit", !.idx = i + 1, !.cur = pane_id,
                                         !.cb = 1, !.ev = ev, !.emitted = Append(@, ev)]
                    /\ received' = Deliver(received, 1, ev)
    ELSE IF r.removed_ids # {}
    THEN \E pane_id \in r.removed_ids :
             LET ev == PaneRemovedEvent(pane_id)
             IN /\ CanEmit
                /\ panes' = remove(P, pane_id).panes
                /\ disc' = [r EXCEPT !.pc = "emit", !.idx = Len(r.tmux_panes) + 1,
                                     !.removed_ids = @ \ {pane_id}, !.cur = pane_id,
                                     !.cb = 1, !.ev = ev, !.emitted = Append(@, ev)]
                /\ received' = Deliver(received, 1, ev)
                /\ UNCHANGED <<bursts, updates>>
    ELSE /\ panes' = P
         /\ disc' = [r EXCEPT !.pc = "idle", !.ran = TRUE]
         /\ UNCHANGED <<received, bursts, updates>>

\* the multiplexer's sessions, windows and panes change
TmuxChange ==
    /\ \E topo \in [Sessions -> SUBSET ObsPaneIds] :
           topo # topology /\ topology' = topo
    /\ UNCHANGED <<cliVars, mgrVars, auxVars, panes, lastCall, mode, disc, tasks, received, bursts, updates>>

\* _discover_panes: the enumeration returns; the diff against the registry keys
DiscEnumerate ==
    /\ disc.pc = "idle"
    /\ LET tmux_panes == discover_all_panes(topology)
           current_ids == DOMAIN panes
           r == [IdleRun EXCEPT !.tmux_panes = tmux_panes,
                                !.new_ids = Ids(tmux_panes) \ current_ids,
                                !.removed_ids = current_ids \ Ids(tmux_panes),
                                !.K = current_ids]
       IN DiscContinue(panes, r)
    /\ UNCHANGED <<cliVars, mgrVars, auxVars, lastCall, mode, topology, tasks>>

\* _add_pane in control mode: the initial capture returns (or raises), then the
\* discovery event is emitted
DiscCaptureDone ==
    /\ disc.pc = "add_capture"
    /\ CanEmit
    /\ \E res \in CaptureResults :
           LET ev == PaneDiscoveryEvent(disc.cur)
           IN /\ panes' = IF res = CaptureFailed THEN panes
                          ELSE update_output(panes, disc.cur, res, "").panes
              /\ disc' = [disc EXCEPT !.pc = "emit", !.cb = 1, !.ev = ev,
                                      !.emitted = Append(@, ev)]
              /\ received' = Deliver(received, 1, ev)
    /\ UNCHANGED <<cliVars, mgrVars, auxVars, lastCall, mode, topology, tasks, bursts, updates>>

\* _emit_event of the run: the awaited callback returns; the next one is called, or
\* the run goes on
DiscCallbackReturn ==
    /\ disc.pc = "emit"
    /\ \E outcome \in CallbackOutcomes :
           /\ outcome = "raised" => MayRaise
           /\ raises' = Raise(callbacks[disc.cb], outcome)
           /\ IF ~Continues(outcome)
              THEN /\ disc' = [disc EXCEPT !.pc = "idle", !.ran = TRUE]
                   /\ UNCHANGED <<panes, received, bursts, updates>>
              ELSE IF disc.cb < NumCallbacks
              THEN /\ received' = Deliver(received, disc.cb + 1, disc.ev)
                   /\ disc' = [disc EXCEPT !.cb = @ + 1]
                   /\ UNCHANGED <<panes, bursts, updates>>
              ELSE DiscContinue(panes, disc)
    /\ UNCHANGED <<cliVars, mgrVars, obs, fn, refs, screen, api, lastCall, mode, topology, tasks>>

(***************************************************************************)
(* Streaming mode: _handle_control_mode_output, _schedule_update_event and *)
(* the debounce task emit_update / _emit_pane_update.                       *)
(***************************************************************************)
\* the task created by _schedule_update_event, asleep for the debounce time;
\* current: _pending_updates[pane] refers to this task
NewTask(pane_id) ==
    [pane |-> pane_id, pc |-> "sleep", current |-> TRUE, cb |-> 0, lines |-> <<>>,
     ev |-> NoEvent]

\* ObserverDaemon._pending_updates, by its keys
pending_updates == {t.pane : t \in {u \in tasks : u.current}}

\* emit_update ends: _pending_updates.pop(pane_id, None) drops the pane's entry,
\* whichever task it refers to
FinishTask(t) ==
    {IF u.pane = t.pane THEN [u EXCEPT !.current = FALSE] ELSE u : u \in tasks \ {t}}

StepTask(t, t2) == (tasks \ {t}) \cup {t2}

\* _emit_pane_update after the capture (observer.py:271-289), from registry P1:
\* the request is set or cleared, the pane is looked up again and, if it is still
\* registered, the update event is given to the first callback.  The pane object
\* read for `pane.input_request` is the registry's own entry (get returns it).
EmitPaneUpdateTail(P1, t, lines, cur) ==
    LET pane_id == t.pane
        input_request == parse(lines)
        had_request == pane_id \in DOMAIN P1 /\ P1[pane_id].input_request # None
        P2 == IF input_request # None
              THEN set_input_request(P1, pane_id, input_request).panes
              ELSE IF had_request /\ ~has_input_marker(lines)
                   THEN clear_input_request(P1, pane_id).panes
                   ELSE P1
    IN /\ panes' = P2
       /\ IF pane_id \in DOMAIN P2
          THEN LET ev == PaneUpdateEvent(P2, pane_id, lines, cur)
               IN /\ CanEmit
                  /\ received' = Deliver(received, 1, ev)
                  /\ tasks' = StepTask(t, [t EXCEPT !.pc = "emit", !.cb = 1, !.ev = ev,
                                                   !.lines = <<>>])
                  /\ updates' = [updates EXCEPT ![pane_id] = @ + 1]
          ELSE /\ tasks' = FinishTask(t)
               /\ UNCHANGED <<received, updates>>

\* a session client reads %output for a pane: append_output, then, if appended,
\* the pending task of the pane is cancelled and a new one is created
\* a schedule that leaves the pane's pending task running
KeepPending(T, pane_id) == T

\* _schedule_update_event: the task _pending_updates holds for the pane is cancelled
CancelPending(T, pane_id) == {t \in T : ~(t.pane = pane_id /\ t.current)}

HandleOutputFor(pane_id, data) ==
    LET r == append_output(panes, pane_id, data, max_lines)
        sleeping == \E t \in tasks : t.pane = pane_id /\ t.current /\ t.pc = "sleep"
    IN /\ r.ret
       /\ \A i \in 1..Len(r.panes[pane_id].last_lines) :
              Len(r.panes[pane_id].last_lines[i]) <= MaxLineLen
       /\ sleeping \/ bursts[pane_id] < MaxBursts
       /\ panes' = r.panes
       /\ tasks' = CancelPending(tasks, pane_id) \cup {NewTask(pane_id)}
       /\ bursts' = IF sleeping THEN bursts ELSE [bursts EXCEPT ![pane_id] = @ + 1]

HandleOutput ==
    /\ mode = "control_mode"
    /\ \E pane_id \in LivePanes, data \in ObsData : HandleOutputFor(pane_id, data)
    /\ UNCHANGED <<cliVars, mgrVars, auxVars, lastCall, mode, topology, disc, received, updates>>

\* the debounce sleep ends: _emit_pane_update looks the pane up and starts the capture
TimerExpire ==
    /\ \E t \in tasks :
           /\ t.pc = "sleep"
           /\ tasks' = IF t.pane \in DOMAIN panes
                       THEN StepTask(t, [t EXCEPT !.pc = "capture"])
                       ELSE FinishTask(t)
    /\ UNCHANGED <<cliVars, mgrVars, auxVars, panes, lastCall, mode, topology, disc, received, bursts, updates>>

\* capture_pane returns rows (the cursor query follows) or raises (the buffered
\* lines are used with cursor (0, 0))
CaptureDone ==
    /\ \E t \in tasks :
           /\ t.pc = "capture"
           /\ \E res \in CaptureResults :
                  IF res = CaptureFailed
                  THEN EmitPaneUpdateTail(panes, t, get_output(panes, t.pane), <<0, 0>>)
                  ELSE /\ tasks' = StepTask(t, [t EXCEPT !.pc = "cursor", !.lines = res])
                       /\ UNCHANGED <<panes, received, updates>>
    /\ UNCHANGED <<cliVars, mgrVars, auxVars, lastCall, mode, topology, disc, bursts>>

\* get_cursor_position returns (the captured rows are stored with hash "") or
\* raises (the buffered lines are used with cursor (0, 0))
CursorDoneWith(t, cursor_pos) ==
    IF cursor_pos = CaptureFailed
    THEN EmitPaneUpdateTail(panes, t, get_output(panes, t.pane), <<0, 0>>)
    ELSE EmitPaneUpdateTail(update_output(panes, t.pane, t.lines, "").panes,
                            t, t.lines, CursorOf(cursor_pos, t.lines))

CursorDone ==
    /\ \E t \in tasks :
           /\ t.pc = "cursor"
           /\ \E cursor_pos \in CursorOutcomes : CursorDoneWith(t, cursor_pos)
    /\ UNCHANGED <<cliVars, mgrVars, auxVars, lastCall, mode, topology, disc, bursts>>

\* _emit_event of a debounce task: the awaited callback returns; the next one is
\* called, or the task ends
EmitReturn ==
    /\ \E t \in tasks, outcome \in CallbackOutcomes :
           /\ t.pc = "emit"
           /\ outcome = "raised" => MayRaise
           /\ raises' = Raise(callbacks[t.cb], outcome)
           /\ IF Continues(outcome) /\ t.cb < NumCallbacks
              THEN /\ received' = Deliver(received, t.cb + 1, t.ev)
                   /\ tasks' = StepTask(t, [t EXCEPT !.cb = @ + 1])
              ELSE /\ tasks' = FinishTask(t)
                   /\ UNCHANGED received
    /\ UNCHANGED <<cliVars, mgrVars, obs, fn, refs, screen, api, panes, lastCall, mode, topology, disc, bursts, updates>>

\* the observer started in control mode while the multiplexer had no session
StreamInit ==
    /\ panes = <<>>
    /\ lastCall = NoCall
    /\ mode = "control_mode"
    /\ topology = [s \in Sessions |-> {}]
    /\ disc = IdleRun
    /\ tasks = {}
    /\ received = [k \in 1..NumCallbacks |-> <<>>]
    /\ bursts = [p \in PaneIds |-> 0]
    /\ updates = [p \in PaneIds |-> 0]
    /\ CtlIdle
    /\ AuxIdle

StreamNext ==
    \/ TmuxChange
    \/ DiscEnumerate
    \/ DiscCaptureDone
    \/ DiscCallbackReturn
    \/ HandleOutput
    \/ TimerExpire
    \/ CaptureDone
    \/ CursorDone
    \/ EmitReturn

SpecStreaming == StreamInit /\ [][StreamNext]_vars

(***************************************************************************)
(* Properties of the streaming observer.                                    *)
(***************************************************************************)
\* no debounce task of pane p is alive
Quiet(p) == ~\E t \in tasks : t.pane = p

\* C4: in streaming mode every burst of output notifications for a registered pane
\* (each notification arriving while the previous one's debounce timer runs) gives
\* exactly one pane_update, and a notification arriving after the previous timer
\* expired gives its own: once no debounce task of the pane is left, the pane has
\* had as many pane_update events as bursts since it was registered.
C4_OneUpdatePerBurst ==
    \A p \in DOMAIN panes : Quiet(p) => updates[p] = bursts[p]

\* number of events of one kind for pane p in a log
CountEv(evs, kind, p) ==
    Cardinality({i \in 1..Len(evs) : evs[i].event = kind /\ evs[i].pane_id = p})

\* C5: a finished discovery run that started with key set K and enumerated P leaves
\* the key set (K \cup (P \ K)) \ (K \ P) and has emitted exactly one
\* pane_discovered per pane of P \ K, exactly one pane_removed per pane of K \ P,
\* and no other discovery or removal event.
C5_DiscoveryDiff ==
    (disc.pc = "idle" /\ disc.ran) =>
        LET K == disc.K
            P == Ids(disc.tmux_panes)
            D_added == P \ K
            D_removed == K \ P
        IN /\ DOMAIN panes = (K \cup D_added) \ D_removed
           /\ \A p \in PaneIds :
                  /\ CountEv(disc.emitted, "pane_discovered", p)
                         = (IF p \in D_added THEN 1 ELSE 0)
                  /\ CountEv(disc.emitted, "pane_removed", p)
                         = (IF p \in D_removed THEN 1 ELSE 0)

\* C6: every subscriber receives a pane's pane_discovered before any pane_update
\* for that pane.
C6_DiscoveredBeforeUpdate ==
    \A k \in 1..NumCallbacks :
        \A i \in 1..Len(received[k]) :
            received[k][i].event = "pane_update" =>
                \E j \in 1..(i - 1) :
                    /\ received[k][j].event = "pane_discovered"
                    /\ received[k][j].pane_id = received[k][i].pane_id

\* C7: after a subscriber received a pane's pane_removed it receives no pane_update
\* for the pane unless a later pane_discovered for the pane came first.
C7_NoUpdateAfterRemoved ==
    \A k \in 1..NumCallbacks :
        \A i \in 1..Len(received[k]) :
            received[k][i].event = "pane_update" =>
                \A j \in 1..(i - 1) :
                    (/\ received[k][j].event = "pane_removed"
                     /\ received[k][j].pane_id = received[k][i].pane_id)
                    => \E m \in (j + 1)..(i - 1) :
                           /\ received[k][m].event = "pane_discovered"
                           /\ received[k][m].pane_id = received[k][i].pane_id

(***************************************************************************)
(* ControlModeClient: send_command, the reader task (_read_loop and         *)
(* _handle_message), start and stop.  Strings are sequences of characters.  *)
(***************************************************************************)
CmdNums == 1..MaxCmd
PayloadLines == {<<"X">>, <<"Y">>}
ErrorMessages == {<<"e">>}
ExitCodes == {0, 1}

\* a parsed ControlModeMessage (0 stands for an absent number)
Msg(type, n, code, text) ==
    [type |-> type, command_number |-> n, exit_code |-> code, text |-> text]

\* '\n'.join(lines)
RECURSIVE Join(_)
Join(lines) ==
    IF lines = <<>> THEN <<>>
    ELSE IF Len(lines) = 1 THEN lines[1]
    ELSE lines[1] \o <<"\n">> \o Join(Tail(lines))

\* the asyncio.Future of a command and what send_command's caller gets; at is the
\* position in the message log of the message that set the result
NoFuture == [st |-> "none", success |-> FALSE, output |-> <<>>, error |-> None, at |-> 0]
PendingFuture == [NoFuture EXCEPT !.st = "pending"]
CommandResponse(success, output, error, at) ==
    [st |-> "done", success |-> success, output |-> output, error |-> error, at |-> at]

\* dict.pop(key, None) on a dict kept as a function
Pop(d, key) == [k \in DOMAIN d \ {key} |-> d[k]]
\* d[key] = value
Put(d, key, value) == [k \in DOMAIN d \cup {key} |-> IF k = key THEN value ELSE d[k]]

Min(S) == CHOOSE x \in S : \A y \in S : x <= y
\* the oldest pending command, whatever number the message carries
CompletesOldest(msg, pending) == IF pending # {} THEN Min(pending) ELSE 0

\* %end / %error: the pending command the message completes (0: none)
Completes(msg, pending) ==
    IF msg.command_number # 0 /\ msg.command_number \in pending
    THEN msg.command_number ELSE 0

\* _handle_message(msg, current_cmd_num) on client c; idx is the message's position
\* in the log.  Notifications go to callbacks and leave the client as it is.
HandleMessage(c, msg, idx) ==
    IF msg.type = "begin"
    THEN IF msg.command_number # 0 /\ msg.command_number \notin DOMAIN c.response_buffer
         THEN [c EXCEPT !.response_buffer = Put(@, msg.command_number, <<>>)]
         ELSE c
    ELSE IF msg.type \in {"end", "error"}
    THEN LET cmd_num == Completes(msg, c.pending_commands)
         IN IF cmd_num = 0 THEN c
            ELSE LET buffered == IF cmd_num \in DOMAIN c.response_buffer
                                 THEN c.response_buffer[cmd_num] ELSE <<>>
                     response ==
                         IF msg.type = "end"
                         THEN CommandResponse(msg.exit_code = 0, Join(buffered), None, idx)
                         ELSE CommandResponse(FALSE, <<>>, Some(msg.text), idx)
                 IN [c EXCEPT !.pending_commands = @ \ {cmd_num},
                              !.response_buffer = Pop(@, cmd_num),
                              !.futures[cmd_num] =
                                  IF @.st = "pending" THEN response ELSE @]
    ELSE IF msg.type = "unknown"
    THEN IF c.current_cmd_num # 0 /\ c.current_cmd_num \in DOMAIN c.response_buffer
         THEN [c EXCEPT !.response_buffer[c.current_cmd_num] = Append(@, msg.text)]
         ELSE c
    ELSE c

\* _read_loop after _handle_message: the command whose block is being read
NextCurrent(msg, current_cmd_num) ==
    IF msg.type = "begin" THEN msg.command_number
    ELSE IF msg.type \in {"end", "error"} THEN 0
    ELSE current_cmd_num

\* the notifications _handle_message gives to a callback, and the callback
CallbackOf ==
    [output |-> "on_output", window_add |-> "on_window_change",
     sessions_changed |-> "on_session_change"]

\* the messages the server can write next: a block is begun for a command it has
\* received and ended once; text lines come while some block is open, or at any
\* time from a server that writes them outside blocks; notifications come at any
\* time
ServerMessages(srv) ==
    {Msg("begin", n, 0, <<>>) : n \in {k \in CmdNums : srv[k] = "sent"}}
        \cup {Msg("end", n, code, <<>>) :
                  n \in {k \in CmdNums : srv[k] = "begun"}, code \in ExitCodes}
        \cup {Msg("error", n, 0, e) :
                  n \in {k \in CmdNums : srv[k] = "begun"}, e \in ErrorMessages}
        \cup {Msg("unknown", 0, 0, x) :
                  x \in {y \in PayloadLines : wire.stray \/ \E k \in CmdNums : srv[k] = "begun"}}
        \cup {Msg(type, 0, 0, <<>>) : type \in DOMAIN CallbackOf}

SrvAfter(srv, msg) ==
    IF msg.type = "begin" THEN [srv EXCEPT ![msg.command_number] = "begun"]
    ELSE IF msg.type \in {"end", "error"} THEN [srv EXCEPT ![msg.command_number] = "ended"]
    ELSE srv

\* ControlModeClient.__init__
NewClient ==
    [running |-> FALSE, process |-> "none", reader_task |-> "none", current_cmd_num |-> 0,
     command_number |-> 0, pending_commands |-> {}, response_buffer |-> <<>>,
     futures |-> [n \in CmdNums |-> NoFuture], stop_pc |-> "idle"]

NoWire ==
    [child |-> "none", srv |-> [n \in CmdNums |-> "idle"], log |-> <<>>, stopped |-> FALSE,
     stray |-> FALSE]

CliOthers == <<panes, lastCall, obsVars, mgrVars, auxVars>>

\* start(): returns at once on a running client; else spawns the child and creates
\* the reader task.  Callers start a client while no stop() of it is in progress
\* and after an earlier reader has finished.
CliStart ==
    /\ ~client.running
    /\ client.stop_pc = "idle"
    /\ client.reader_task # "disconnect"
    /\ client' = [client EXCEPT !.running = TRUE, !.process = "attached",
                                !.reader_task = "reading", !.current_cmd_num = 0]
    /\ wire' = [wire EXCEPT !.child = "alive", !.srv = [n \in CmdNums |-> "idle"],
                            !.stopped = FALSE]
    /\ UNCHANGED CliOthers

\* send_command up to its wait: the number is allocated, the promise and the buffer
\* are created, the command is written; a failed write drops both and raises
CliSend ==
    /\ client.running
    /\ client.process = "attached"
    /\ client.command_number < MaxCmd
    /\ \E written \in BOOLEAN :
           LET cmd_num == client.command_number + 1
           IN IF written
              THEN /\ client' = [client EXCEPT
                                     !.command_number = cmd_num,
                                     !.pending_commands = @ \cup {cmd_num},
                                     !.response_buffer = Put(@, cmd_num, <<>>),
                                     !.futures[cmd_num] = PendingFuture]
                   /\ wire' = [wire EXCEPT !.srv[cmd_num] =
                                               IF wire.child = "alive" THEN "sent" ELSE @]
              ELSE /\ client' = [client EXCEPT
                                     !.command_number = cmd_num,
                                     !.futures[cmd_num] = [NoFuture EXCEPT !.st = "failed"]]
                   /\ UNCHANGED wire
    /\ UNCHANGED CliOthers

\* send_command: the 10 s wait for the promise times out
CliTimeout ==
    /\ \E cmd_num \in CmdNums :
           /\ client.futures[cmd_num].st = "pending"
           /\ client' = [client EXCEPT
                             !.pending_commands = @ \ {cmd_num},
                             !.response_buffer = Pop(@, cmd_num),
                             !.futures[cmd_num] = [NoFuture EXCEPT !.st = "timeout"]]
    /\ UNCHANGED <<wire, CliOthers>>

\* one turn of _read_loop: a line is read, parsed and handled; the log keeps the
\* messages of response blocks
CliRead ==
    /\ client.reader_task = "reading"
    /\ wire.child = "alive"
    /\ Len(wire.log) < MaxLog
    /\ \E msg \in ServerMessages(wire.srv), outcome \in CallbackOutcomes :
           LET notification == msg.type \in DOMAIN CallbackOf
           IN /\ outcome = "raised" => notification /\ MayRaise
              /\ raises' = IF notification THEN Raise(CallbackOf[msg.type], outcome)
                            ELSE raises
              /\ IF notification /\ ~Continues(outcome)
                 THEN /\ client' = [client EXCEPT !.running = FALSE,
                                                  !.reader_task = "disconnect"]
                      /\ UNCHANGED wire
                 ELSE /\ client' = [HandleMessage(client, msg, Len(wire.log) + 1) EXCEPT
                                        !.current_cmd_num =
                                            NextCurrent(msg, client.current_cmd_num)]
                      /\ wire' = [wire EXCEPT !.log = IF notification THEN @
                                                      ELSE Append(@, msg),
                                              !.srv = SrvAfter(@, msg)]
    /\ UNCHANGED <<panes, lastCall, obsVars, mgrVars, obs, fn, refs, screen, api>>

\* readline returns b'' (the child closed its output): the loop breaks, the finally
\* block clears _running and awaits on_disconnect
CliEOF ==
    /\ client.reader_task = "reading"
    /\ wire.child = "alive"
    /\ client' = [client EXCEPT !.running = FALSE, !.reader_task = "disconnect"]
    /\ wire' = [wire EXCEPT !.child = "dead"]
    /\ UNCHANGED CliOthers

\* readline or a handler raises: except Exception, then the same finally block
CliReadError ==
    /\ client.reader_task = "reading"
    /\ wire.child = "alive"
    /\ client' = [client EXCEPT !.running = FALSE, !.reader_task = "disconnect"]
    /\ UNCHANGED <<wire, CliOthers>>

\* the reader's on_disconnect callback returns and the reader task ends
CliDisconnectReturn ==
    /\ client.reader_task = "disconnect"
    /\ client' = [client EXCEPT !.reader_task = "done"]
    /\ UNCHANGED <<wire, CliOthers>>

\* stop(): returns at once when _running is false; else clears _running, cancels
\* the reader (its finally block runs) and awaits it
CliStop ==
    /\ IF ~client.running
       THEN /\ ~wire.stopped
            /\ wire' = [wire EXCEPT !.stopped = TRUE]
            /\ UNCHANGED client
       ELSE /\ client' = [client EXCEPT
                              !.running = FALSE, !.stop_pc = "join",
                              !.reader_task = IF @ = "reading" THEN "disconnect" ELSE @]
            /\ UNCHANGED wire
    /\ UNCHANGED CliOthers

\* stop() after the reader task ended: terminate() and the wait of at most 2 s
CliStopJoined ==
    /\ client.stop_pc = "join"
    /\ client.reader_task \in {"done", "none"}
    /\ client' = [client EXCEPT !.reader_task = "none", !.stop_pc = "wait"]
    /\ wire' = [wire EXCEPT !.child = IF @ = "alive" THEN "terminating" ELSE @]
    /\ UNCHANGED CliOthers

\* stop() after the wait (the child exited, or was killed on the timeout): the
\* process is released, the promises are cancelled, the tables are cleared
CliStopFinish ==
    /\ client.stop_pc = "wait"
    /\ client' = [client EXCEPT
                      !.process = "none", !.stop_pc = "idle",
                      !.futures = [n \in CmdNums |->
                                       IF n \in client.pending_commands /\ @[n].st = "pending"
                                       THEN [NoFuture EXCEPT !.st = "cancelled"] ELSE @[n]],
                      !.pending_commands = {},
                      !.response_buffer = <<>>]
    /\ wire' = [wire EXCEPT !.child = "dead", !.stopped = TRUE]
    /\ UNCHANGED CliOthers

\* a client constructed and not yet started
CliInit ==
    /\ panes = <<>>
    /\ lastCall = NoCall
    /\ ObsIdle
    /\ client = NewClient
    /\ wire = NoWire
    /\ mgr = <<>>
    /\ AuxIdle

CliNext ==
    \/ CliStart
    \/ CliSend
    \/ CliTimeout
    \/ CliRead
    \/ CliEOF
    \/ CliReadError
    \/ CliDisconnectReturn
    \/ CliStop
    \/ CliStopJoined
    \/ CliStopFinish

SpecClient == CliInit /\ [][CliNext]_vars

(***************************************************************************)
(* Properties of the control-mode client.                                   *)
(***************************************************************************)
\* position of the last %begin / %end / %error before position i of the log (0: none)
LastFrame(log, i) ==
    LET F == {j \in 1..(i - 1) : log[j].type \in {"begin", "end", "error"}}
    IN IF F = {} THEN 0 ELSE CHOOSE j \in F : \A k \in F : k <= j

\* the text lines before position at that directly follow the %begin of command n
\* or another text line of its block
RECURSIVE OwnLines(_, _, _, _)
OwnLines(log, n, i, at) ==
    IF i >= at THEN <<>>
    ELSE LET f == LastFrame(log, i)
             own == /\ log[i].type = "unknown"
                    /\ f # 0
                    /\ log[f].type = "begin"
                    /\ log[f].command_number = n
         IN (IF own THEN <<log[i].text>> ELSE <<>>) \o OwnLines(log, n, i + 1, at)

\* C8: a command's promise is completed only by the %end or %error message that
\* carries the command's own number, with the payload buffered for that number
\* (its own text lines, joined by newlines); success is true exactly when the %end
\* exit field is 0; %error gives success = false, no output and the message.
C8_CorrelatedByNumber ==
    \A n \in CmdNums :
        client.futures[n].st = "done" =>
            LET f == client.futures[n]
                m == wire.log[f.at]
            IN /\ f.at \in 1..Len(wire.log)
               /\ m.type \in {"end", "error"}
               /\ m.command_number = n
               /\ m.type = "end" =>
                      /\ f.success = (m.exit_code = 0)
                      /\ f.output = Join(OwnLines(wire.log, n, 1, f.at))
                      /\ f.error = None
               /\ m.type = "error" =>
                      /\ f.success = FALSE
                      /\ f.output = <<>>
                      /\ f.error = Some(m.text)

\* the blocks of two commands interleave; command 2 resolves first with "Y", then
\* command 1 with "X", both successful
C8_InterleavedBlocksResolved ==
    /\ wire.log = <<Msg("begin", 1, 0, <<>>), Msg("unknown", 0, 0, <<"X">>),
                    Msg("begin", 2, 0, <<>>), Msg("unknown", 0, 0, <<"Y">>),
                    Msg("end", 2, 0, <<>>), Msg("end", 1, 0, <<>>)>>
    /\ client.futures[2] = CommandResponse(TRUE, <<"Y">>, None, 5)
    /\ client.futures[1] = CommandResponse(TRUE, <<"X">>, None, 6)

\* C9: after stop() has returned on a started client, the client is not running,
\* its child is terminated and released, no command promise is pending, and the
\* pending table and the response buffers are empty.
C9_StoppedIsClean ==
    wire.stopped =>
        /\ ~client.running
        /\ wire.child # "alive"
        /\ client.process = "none"
        /\ \A n \in CmdNums : client.futures[n].st # "pending"
        /\ client.pending_commands = {}
        /\ client.response_buffer = <<>>

(***************************************************************************)
(* SessionManager: its asyncio.Lock, start / refresh_sessions               *)
(* (_discover_and_connect), stop, the disconnect handler the clients'       *)
(* readers call, and the reconnect tasks.  A client is followed by its       *)
(* _running flag and the position of its reader task.  child[s] is the      *)
(* tmux -C child process of the session's newest client ("none", "alive",   *)
(* "exited" by itself, or "terminated" by stop()); leaked holds the sessions *)
(* that have a live child of an earlier client no object refers to any more. *)
(***************************************************************************)
Task(kind, session) == [kind |-> kind, session |-> session]
NoTask == Task("none", "-")

\* asyncio.Lock.acquire: taken at once when free with nobody waiting, else the
\* task waits in line
Acquire(m, task) ==
    IF m.lock = NoTask /\ m.waiters = <<>>
    THEN [m EXCEPT !.lock = task]
    ELSE [m EXCEPT !.waiters = Append(@, task)]

\* asyncio.Lock.release: the first waiter gets the lock
Release(m) ==
    IF m.waiters # <<>>
    THEN [m EXCEPT !.lock = Head(m.waiters), !.waiters = Tail(m.waiters)]
    ELSE [m EXCEPT !.lock = NoTask]

\* SessionManager.__init__
NewManager ==
    [running |-> FALSE, live |-> {}, clients |-> {},
     client_running |-> [s \in Sessions |-> FALSE],
     reader |-> [s \in Sessions |-> "none"],
     lock |-> NoTask, waiters |-> <<>>,
     reconnect |-> [s \in Sessions |-> "none"],
     stop_pc |-> "idle", stop_todo |-> {},
     ref_pc |-> "idle", ref_sessions |-> {}, ref_removed |-> {}, ref_new |-> {},
     ref_cur |-> "-", changes |-> 0, runs |-> 0, eofs |-> 0,
     child |-> [s \in Sessions |-> "none"], leaked |-> {},
     rtasks |-> {}, attempt |-> [s \in Sessions |-> 0],
     delay |-> [s \in Sessions |-> 0],
     rec_sessions |-> [s \in Sessions |-> {}],
     rec_end |-> [s \in Sessions |-> "none"],
     disc_end |-> {}, refresh_tasks |-> 0]

\* SessionManager._reconnect_tasks, by its keys
reconnect_tasks(m) == m.rtasks

\* _reconnect_session: delay = self.reconnect_delay * (2 ** attempt)
Backoff(attempt) == reconnect_delay * (2 ^ attempt)

\* a listing test that lets every session through
SessionAlwaysListed(sessions, s) == TRUE

\* _reconnect_session: if session_name not in sessions: break
SessionListed(sessions, s) == s \in sessions

\* asyncio.create_task(self._reconnect_session(s)): the task runs up to its first
\* sleep (attempt 0); its entry is put in _reconnect_tasks
StartReconnect(m, s) ==
    [m EXCEPT !.reconnect[s] = "sleep", !.rtasks = @ \cup {s}, !.attempt[s] = 0,
              !.delay[s] = Backoff(0), !.rec_end[s] = "none"]

\* _reconnect_session leaves its loop: self._reconnect_tasks.pop(session_name, None);
\* why records the way the loop was left
EndReconnect(m, s, why) ==
    [m EXCEPT !.reconnect[s] = "none", !.rtasks = @ \ {s}, !.rec_end[s] = why]

\* _reconnect_session, except Exception: the for loop goes to the next attempt and
\* sleeps, or is exhausted
NextAttempt(m, s) ==
    IF m.attempt[s] + 1 < max_reconnect_attempts
    THEN [m EXCEPT !.reconnect[s] = "sleep", !.attempt[s] = @ + 1,
                   !.delay[s] = Backoff(m.attempt[s] + 1)]
    ELSE EndReconnect(m, s, "exhausted")

\* what awaiting _create_client can do: the client started, or client.start()
\* raises ControlModeError, which _create_client logs and swallows.  start() turns
\* every exception of the spawn into ControlModeError, so nothing is raises to the
\* caller
CreateClientOutcomes == {"started", "failed"}

\* ControlModeClient.stop() on the running client of session s, up to its await of
\* the reader task: _running is cleared, the reader is cancelled, its finally block
\* calls the manager's disconnect handler, which asks for the manager's lock
ClientStop(m, s) ==
    Acquire([m EXCEPT !.client_running[s] = FALSE, !.reader[s] = "handler"],
            Task("disconnect", s))

\* ControlModeClient.start() returned: the child is spawned, the client runs and is
\* entered in _clients.  reader[s] follows the session's newest client; the
\* disconnect handler of an earlier client of the session that still waits for the
\* lock is an "orphan"
ClientStarted(m, s) ==
    [m EXCEPT !.clients = @ \cup {s}, !.client_running[s] = TRUE, !.reader[s] = "reading",
              !.child[s] = "alive",
              !.leaked = IF m.child[s] = "alive" THEN @ \cup {s} ELSE @,
              !.waiters = [i \in DOMAIN @ |->
                              IF @[i] = Task("disconnect", s) THEN Task("orphan", s)
                              ELSE @[i]]]

\* stop(): every reconnect task is cancelled (one that waits for the lock leaves the
\* line, one that holds it releases it) and _reconnect_tasks is cleared
CancelReconnects(m) ==
    LET m1 == [m EXCEPT !.reconnect = [s \in Sessions |->
                                          IF s \in m.rtasks THEN "none" ELSE @[s]],
                        !.rec_end = [s \in Sessions |->
                                        IF s \in m.rtasks THEN "cancelled" ELSE @[s]],
                        !.rtasks = {},
                        !.waiters = SelectSeq(@, LAMBDA t : t.kind # "reconnect")]
    IN IF m.lock.kind = "reconnect" THEN Release(m1) ELSE m1

MgrOthers == <<panes, lastCall, obsVars, cliVars, auxVars>>

\* sessions are created and closed in the multiplexer
MgrSessionsChange ==
    /\ mgr.changes < MaxChanges
    /\ \E live \in SUBSET Sessions :
           /\ live # mgr.live
           /\ mgr' = [mgr EXCEPT !.live = live, !.changes = @ + 1]
    /\ UNCHANGED MgrOthers

\* start(): sets _running and begins _discover_and_connect (list-sessions).  The
\* owner does not call start() while a stop() is in progress.
MgrStart ==
    /\ ~mgr.running
    /\ mgr.stop_pc \in {"idle", "returned"}
    /\ mgr.ref_pc = "idle"
    /\ mgr.runs < MaxRuns
    /\ mgr' = [mgr EXCEPT !.running = TRUE, !.ref_pc = "listing", !.runs = @ + 1]
    /\ UNCHANGED MgrOthers

\* refresh_sessions(): begins _discover_and_connect on a running manager
MgrRefresh ==
    /\ mgr.running
    /\ mgr.ref_pc = "idle"
    /\ mgr.runs < MaxRuns
    /\ mgr' = [mgr EXCEPT !.ref_pc = "listing", !.runs = @ + 1]
    /\ UNCHANGED MgrOthers

\* _discover_and_connect: list-sessions returns; the lock is asked for
MgrRefListed ==
    /\ mgr.ref_pc = "listing"
    /\ mgr' = Acquire([mgr EXCEPT !.ref_pc = "wait_lock", !.ref_sessions = mgr.live],
                      Task("refresh", "-"))
    /\ UNCHANGED MgrOthers

\* _discover_and_connect with the lock: the new and the removed sessions
MgrRefLocked ==
    /\ mgr.ref_pc = "wait_lock"
    /\ mgr.lock = Task("refresh", "-")
    /\ mgr' = [mgr EXCEPT !.ref_pc = "locked",
                          !.ref_new = mgr.ref_sessions \ mgr.clients,
                          !.ref_removed = mgr.clients \ mgr.ref_sessions]
    /\ UNCHANGED MgrOthers

\* _discover_and_connect, one turn of its loops: a removed session's client is
\* popped and stopped (stop() of a client that is not running returns at once; of
\* a running one it awaits the reader), or a new session's client is started, or
\* the lock is released
MgrRefStep ==
    /\ mgr.ref_pc = "locked"
    /\ IF mgr.ref_removed # {}
       THEN \E s \in mgr.ref_removed :
                LET m1 == [mgr EXCEPT !.clients = @ \ {s}, !.ref_removed = @ \ {s}]
                IN mgr' = IF mgr.client_running[s]
                          THEN ClientStop([m1 EXCEPT !.ref_pc = "join", !.ref_cur = s], s)
                          ELSE m1
       ELSE IF mgr.ref_new # {}
       THEN \E s \in mgr.ref_new :
                mgr' = [mgr EXCEPT !.ref_pc = "spawn", !.ref_cur = s, !.ref_new = @ \ {s}]
       ELSE mgr' = Release([mgr EXCEPT !.ref_pc = "idle"])
    /\ UNCHANGED MgrOthers

\* _create_client: client.start() returns, or raises ControlModeError (logged)
MgrRefSpawned ==
    /\ mgr.ref_pc = "spawn"
    /\ \E started \in BOOLEAN :
           LET m1 == [mgr EXCEPT !.ref_pc = "locked", !.ref_cur = "-"]
           IN mgr' = IF started THEN ClientStarted(m1, mgr.ref_cur) ELSE m1
    /\ UNCHANGED MgrOthers

\* a running client's reader reads EOF (the child exited) or readline raises (a
\* line over the stream limit; the child lives on): its finally block clears
\* _running and calls _handle_client_disconnect, which asks for the lock
MgrClientEOF ==
    /\ mgr.eofs < MaxEOFs
    /\ \E s \in Sessions, exited \in BOOLEAN :
           /\ mgr.reader[s] = "reading"
           /\ mgr' = ClientStop([mgr EXCEPT !.eofs = @ + 1,
                                            !.child[s] = IF exited THEN "exited" ELSE @],
                                s)
    /\ UNCHANGED MgrOthers

\* a test of the task table that never finds an entry
NeverHasReconnectTask(m, s) == FALSE

\* _handle_client_disconnect: session_name in self._reconnect_tasks
HasReconnectTask(m, s) == s \in reconnect_tasks(m)

\* how _handle_client_disconnect ends: on a stopped manager, with the session's
\* reconnect task still pending, or with a reconnect task created
DisconnectEnd(m, s) ==
    IF ~m.running THEN "stopped"
    ELSE IF m.reconnect[s] # "none" THEN "pending"
    ELSE "scheduled"

\* _handle_client_disconnect with the lock: the session's entry is popped, the lock
\* is released, a reconnect task is created on a running manager; the reader ends
MgrDisconnectLocked ==
    /\ \E s \in Sessions :
           /\ mgr.lock \in {Task("disconnect", s), Task("orphan", s)}
           /\ LET m1 == Release([mgr EXCEPT
                                     !.clients = @ \ {s},
                                     !.reader[s] = IF mgr.lock.kind = "disconnect"
                                                   THEN "done" ELSE @,
                                     !.disc_end = @ \cup {DisconnectEnd(mgr, s)}])
              IN mgr' = IF mgr.running /\ ~HasReconnectTask(mgr, s)
                        THEN StartReconnect(m1, s)
                        ELSE m1
    /\ UNCHANGED MgrOthers

\* _reconnect_session: the back-off sleep ends
MgrReconnectWake ==
    /\ \E s \in Sessions :
           /\ mgr.reconnect[s] = "sleep"
           /\ mgr' = IF mgr.running
                     THEN [mgr EXCEPT !.reconnect[s] = "listing"]
                     ELSE EndReconnect(mgr, s, "stopped")
    /\ UNCHANGED MgrOthers

\* _reconnect_session: list-sessions returns; a session that is gone ends the task,
\* else the lock is asked for
MgrReconnectListed ==
    /\ \E s \in Sessions :
           /\ mgr.reconnect[s] = "listing"
           /\ LET m1 == [mgr EXCEPT !.rec_sessions[s] = mgr.live]
              IN mgr' = IF ~SessionListed(mgr.live, s)
                        THEN EndReconnect(m1, s, "gone")
                        ELSE Acquire([m1 EXCEPT !.reconnect[s] = "wait_lock"],
                                     Task("reconnect", s))
    /\ UNCHANGED MgrOthers

\* _reconnect_session with the lock: a session that has a client again ends the
\* task, else a client is started
MgrReconnectLocked ==
    /\ \E s \in Sessions :
           /\ mgr.reconnect[s] = "wait_lock"
           /\ mgr.lock = Task("reconnect", s)
           /\ mgr' = IF s \in mgr.clients
                     THEN Release(EndReconnect(mgr, s, "registered"))
                     ELSE [mgr EXCEPT !.reconnect[s] = "spawn"]
    /\ UNCHANGED MgrOthers

\* _reconnect_session: _create_client returns (the client started, or the failure
\* was logged inside it): "Reconnected" is logged, the loop is left, the lock is
\* released and the task removes its entry.  Were an exception raises, the lock
\* would be released and the loop would go on.
MgrReconnectSpawned ==
    /\ \E s \in Sessions :
           /\ mgr.reconnect[s] = "spawn"
           /\ \E outcome \in CreateClientOutcomes :
                  mgr' = IF outcome = "started"
                         THEN ClientStarted(Release(EndReconnect(mgr, s, "attached")), s)
                         ELSE IF outcome = "failed"
                         THEN Release(EndReconnect(mgr, s, "failed"))
                         ELSE Release(NextAttempt(mgr, s))
    /\ UNCHANGED MgrOthers

\* stop(): clears _running, cancels the reconnect tasks, asks for the lock
MgrStop ==
    /\ mgr.stop_pc = "idle"
    /\ mgr' = Acquire(CancelReconnects([mgr EXCEPT !.running = FALSE,
                                                   !.stop_pc = "wait_lock"]),
                      Task("stop", "-"))
    /\ UNCHANGED MgrOthers

\* stop() with the lock: list(self._clients.items())
MgrStopLocked ==
    /\ mgr.stop_pc = "wait_lock"
    /\ mgr.lock = Task("stop", "-")
    /\ mgr' = [mgr EXCEPT !.stop_pc = "locked", !.stop_todo = mgr.clients]
    /\ UNCHANGED MgrOthers

\* stop(), one turn of its loop: the next client is stopped (stop() of a client that
\* is not running returns at once; of a running one it awaits the reader); after
\* the loop _clients is cleared, the lock released, and stop() returns
MgrStopStep ==
    /\ mgr.stop_pc = "locked"
    /\ IF mgr.stop_todo # {}
       THEN \E s \in mgr.stop_todo :
                LET m1 == [mgr EXCEPT !.stop_todo = @ \ {s}]
                IN mgr' = IF mgr.client_running[s]
                          THEN ClientStop([m1 EXCEPT !.stop_pc = "join"], s)
                          ELSE m1
       ELSE mgr' = Release([mgr EXCEPT !.stop_pc = "returned", !.clients = {}])
    /\ UNCHANGED MgrOthers

\* a manager constructed and not yet started
MgrInit ==
    /\ panes = <<>>
    /\ lastCall = NoCall
    /\ ObsIdle
    /\ client = <<>>
    /\ wire = <<>>
    /\ mgr = NewManager
    /\ AuxIdle

\* the steps the event loop takes for the manager's coroutines once they can run
MgrStep ==
    \/ MgrRefListed
    \/ MgrRefLocked
    \/ MgrRefStep
    \/ MgrRefSpawned
    \/ MgrDisconnectLocked
    \/ MgrReconnectWake
    \/ MgrReconnectListed
    \/ MgrReconnectLocked
    \/ MgrReconnectSpawned
    \/ MgrStopLocked
    \/ MgrStopStep

MgrNext ==
    \/ MgrSessionsChange
    \/ MgrStart
    \/ MgrRefresh
    \/ MgrClientEOF
    \/ MgrStop
    \/ MgrStep

\* every coroutine that can run is run: the event loop is fair to each ready task
SpecManager ==
    /\ MgrInit
    /\ [][MgrNext]_vars
    /\ WF_vars(MgrRefListed)
    /\ WF_vars(MgrRefLocked)
    /\ WF_vars(MgrRefStep)
    /\ WF_vars(MgrRefSpawned)
    /\ WF_vars(MgrDisconnectLocked)
    /\ WF_vars(MgrReconnectWake)
    /\ WF_vars(MgrReconnectListed)
    /\ WF_vars(MgrReconnectLocked)
    /\ WF_vars(MgrReconnectSpawned)
    /\ WF_vars(MgrStopLocked)
    /\ WF_vars(MgrStopStep)

(***************************************************************************)
(* Properties of the session manager.                                       *)
(***************************************************************************)
\* C10: the session manager never deadlocks on its own lock: manager.stop(), also
\* with running clients, eventually returns; a discovery run (start or
\* refresh_sessions), also one that drops a session whose client is running,
\* eventually returns; and when stop() returns the client map is empty and no
\* reconnect task remains.
C10_ManagerNeverDeadlocks ==
    /\ (mgr.stop_pc \notin {"idle", "returned"}) ~> (mgr.stop_pc = "returned")
    /\ (mgr.ref_pc # "idle") ~> (mgr.ref_pc = "idle")
    /\ [][(mgr.stop_pc # "returned" /\ mgr'.stop_pc = "returned")
              => (mgr'.clients = {} /\ reconnect_tasks(mgr') = {})]_vars

\* C11: no child process is leaked: a live child belongs to a client that is in the
\* manager's map or that the manager is stopping right now, no earlier client's
\* child lives on, and after manager.stop() has returned (the manager not started
\* again) no child is alive.
C11_NoChildLeaked ==
    /\ mgr.leaked = {}
    /\ \A s \in Sessions :
           mgr.child[s] = "alive" =>
               \/ s \in mgr.clients
               \/ mgr.ref_pc = "join" /\ mgr.ref_cur = s
    /\ (mgr.stop_pc = "returned" /\ ~mgr.running) =>
           \A s \in Sessions : mgr.child[s] # "alive"

\* the reconnect task of s leaves its attach attempt with the manager still running
AttachReturns(s) ==
    mgr.reconnect[s] = "spawn" /\ mgr'.reconnect[s] # "spawn" /\ mgr'.running

\* C12: reconnect attempt k sleeps reconnect_delay * 2^(k-1) first; an attempt whose
\* attach fails is followed by the next attempt with the doubled delay, up to
\* max_reconnect_attempts attempts; the loop ends after an attach only with a
\* started client of the session in the client map, or with the attempts used up.
C12_ReconnectBackoff ==
    /\ [](\A s \in Sessions :
              /\ mgr.attempt[s] < max_reconnect_attempts
              /\ mgr.reconnect[s] = "sleep" => mgr.delay[s] = Backoff(mgr.attempt[s]))
    /\ [][\A s \in Sessions :
              AttachReturns(s) =>
                  IF s \in mgr'.clients /\ mgr'.client_running[s]
                  THEN mgr'.reconnect[s] = "none"
                  ELSE IF mgr.attempt[s] + 1 < max_reconnect_attempts
                  THEN /\ mgr'.reconnect[s] = "sleep"
                       /\ mgr'.attempt[s] = mgr.attempt[s] + 1
                       /\ mgr'.delay[s] = 2 * mgr.delay[s]
                  ELSE mgr'.reconnect[s] = "none"]_vars

\* C13: a reconnect task starts an attach only on a running manager, with the
\* session in the listing it just made and no client registered for the session;
\* a task that finds the session gone, the manager stopped or a client registered
\* ends at once; and a session has an entry in the reconnect-task map exactly
\* while its task has not ended.
C13_ReconnectAborts ==
    /\ [](\A s \in Sessions : (mgr.reconnect[s] # "none") <=> (s \in reconnect_tasks(mgr)))
    /\ [](\A s \in Sessions :
              mgr.reconnect[s] = "spawn" =>
                  /\ mgr.running
                  /\ s \in mgr.rec_sessions[s]
                  /\ s \notin mgr.clients)
    /\ [][\A s \in Sessions :
              /\ (mgr.reconnect[s] = "listing" /\ mgr'.reconnect[s] # "listing"
                      /\ s \notin mgr'.rec_sessions[s])
                  => mgr'.reconnect[s] = "none"
              /\ (mgr.reconnect[s] = "wait_lock" /\ mgr'.reconnect[s] # "wait_lock"
                      /\ s \in mgr.clients)
                  => mgr'.reconnect[s] = "none"
              /\ (mgr.reconnect[s] # "none" /\ ~mgr'.running)
                  => mgr'.reconnect[s] = "none"]_vars

\* a reconnect task has ended without an attach because its listing lacked the
\* session, and another because a client was registered meanwhile
C13_AbortedGoneAndRegistered ==
    /\ \E s \in Sessions : mgr.rec_end[s] = "gone" /\ s \notin reconnect_tasks(mgr)
    /\ \E s \in Sessions : mgr.rec_end[s] = "registered" /\ s \notin reconnect_tasks(mgr)

(***************************************************************************)
(* ObserverDaemon lifecycle: start() with its streaming start sequence and  *)
(* the polling fallback, stop(), the discovery and polling tasks, and the   *)
(* debounce task of one registered pane.  The session manager is followed   *)
(* by whether the observer holds it, its _running flag and whether it has a *)
(* running client; start() and stop() are called one after the other.       *)
(***************************************************************************)
\* ObserverDaemon.__init__; protocol: tmux -C attach can be spawned
NewObserver(use_control_mode, protocol) ==
    [use_control_mode |-> use_control_mode, protocol |-> protocol,
     running |-> FALSE, mode |-> "none",
     discovery_task |-> "none", polling_task |-> "none",
     session_manager |-> "none", sm_running |-> FALSE, attached |-> FALSE,
     pending_update |-> FALSE, pc |-> "idle",
     \* live tasks, and what happened so far
     disc_live |-> 0, poll_live |-> 0, last |-> "none", cm_failed |-> FALSE,
     calls |-> 0, noop_starts |-> 0, noop_stops |-> 0, lost |-> 0, polls |-> 0, late_event |-> FALSE]

\* a test of _running that never finds the observer running
NeverRunning(o) == FALSE

\* start(): if self._running: return
AlreadyRunning(o) == o.running

\* _start_polling up to its await of _discover_panes: both tasks are created
StartPolling(o) ==
    [o EXCEPT !.discovery_task = "task", !.polling_task = "task",
              !.disc_live = @ + 1, !.poll_live = @ + 1, !.pc = "poll_discover"]

\* a start() that lets the exception of the streaming start sequence through
ControlModeFailedRaises(o) == [o EXCEPT !.cm_failed = TRUE, !.pc = "idle", !.last = "start"]

\* start(), except Exception: the warning is logged and _start_polling is awaited
ControlModeFailed(o) == StartPolling([o EXCEPT !.cm_failed = TRUE])

\* the clients SessionManager.start() can leave: none when no session is listed or
\* no attach could be spawned (_create_client logs the ControlModeError)
AttachOutcomes(o) == IF o.protocol THEN {TRUE, FALSE} ELSE {FALSE}

\* an event is emitted to the callbacks; it is late when stop() has returned
Emit(o) ==
    [o EXCEPT !.late_event = @ \/ (o.last = "stop" /\ o.pc = "idle" /\ ~o.running)]

ObsOthers == <<panes, lastCall, obsVars, cliVars, mgrVars, fn, refs, screen, api, raises>>

\* start(): a no-op on a running observer; else _running is set and the streaming
\* start sequence begins (the manager is constructed and its start() awaited), or
\* polling is started
ObsStart ==
    /\ obs.pc = "idle"
    /\ obs.calls < MaxCalls
    /\ LET o == [obs EXCEPT !.calls = @ + 1]
       IN obs' = IF AlreadyRunning(obs) THEN [o EXCEPT !.noop_starts = @ + 1]
                 ELSE IF obs.use_control_mode
                 THEN [o EXCEPT !.running = TRUE, !.cm_failed = FALSE,
                                !.session_manager = "held", !.pc = "sm_start"]
                 ELSE StartPolling([o EXCEPT !.running = TRUE, !.cm_failed = FALSE])
    /\ UNCHANGED ObsOthers

\* _start_control_mode: SessionManager.start() returns or raises; it set the
\* manager's _running first and may have attached a client
ObsManagerStarted ==
    /\ obs.pc = "sm_start"
    /\ \E raised \in BOOLEAN, attached \in AttachOutcomes(obs) :
           LET o == [obs EXCEPT !.sm_running = TRUE, !.attached = attached]
           IN obs' = IF raised THEN ControlModeFailed(o)
                     ELSE [o EXCEPT !.pc = "cm_discover"]
    /\ UNCHANGED ObsOthers

\* _start_control_mode: the initial _discover_panes returns
ObsInitialDiscovery ==
    /\ obs.pc = "cm_discover"
    /\ obs' = [obs EXCEPT !.pc = "cm_capture"]
    /\ UNCHANGED ObsOthers

\* _start_control_mode: _capture_initial_state returns, the discovery task is
\* created; start() sets the mode and returns
ObsInitialCapture ==
    /\ obs.pc = "cm_capture"
    /\ obs' = [obs EXCEPT !.discovery_task = "task", !.disc_live = @ + 1,
                          !.mode = "control_mode", !.pc = "idle", !.last = "start"]
    /\ UNCHANGED ObsOthers

\* _start_polling: the initial _discover_panes returns; start() sets the mode and
\* returns
ObsPollingDiscovered ==
    /\ obs.pc = "poll_discover"
    /\ obs' = [obs EXCEPT !.mode = "polling", !.pc = "idle", !.last = "start"]
    /\ UNCHANGED ObsOthers

\* stop(): a no-op on an observer that is not running; else _running is cleared
\* and the manager's stop() is awaited if a manager is held.  SessionManager.stop()
\* does not return while a client of it is running (it awaits the client's reader
\* under the lock the reader's disconnect handler needs).
ObsStop ==
    /\ obs.pc = "idle"
    /\ obs.calls < MaxCalls
    /\ LET o == [obs EXCEPT !.calls = @ + 1]
       IN obs' = IF ~obs.running THEN [o EXCEPT !.noop_stops = @ + 1]
                 ELSE IF obs.session_manager = "held"
                 THEN [o EXCEPT !.running = FALSE, !.sm_running = FALSE,
                                !.pc = IF obs.attached THEN "sm_stop_blocked"
                                       ELSE "sm_stop"]
                 ELSE [o EXCEPT !.running = FALSE, !.pc = "cancel"]
    /\ UNCHANGED ObsOthers

\* stop(): the manager's stop() returned; self._session_manager = None
ObsManagerStopped ==
    /\ obs.pc = "sm_stop"
    /\ obs' = [obs EXCEPT !.session_manager = "none", !.pc = "cancel"]
    /\ UNCHANGED ObsOthers

\* stop(): the discovery and the polling task are cancelled and awaited, the
\* handles and the mode are reset; stop() returns
ObsTasksCancelled ==
    /\ obs.pc = "cancel"
    /\ obs' = [obs EXCEPT
                  !.disc_live = IF obs.discovery_task = "task" THEN @ - 1 ELSE @,
                  !.poll_live = IF obs.polling_task = "task" THEN @ - 1 ELSE @,
                  !.discovery_task = "none", !.polling_task = "none",
                  !.mode = "none", !.pc = "idle", !.last = "stop"]
    /\ UNCHANGED ObsOthers

\* a running client of the held manager delivers %output of the registered pane:
\* _handle_control_mode_output appends it and schedules the pane's debounce task
ObsOutput ==
    /\ obs.session_manager = "held"
    /\ obs.attached
    /\ ~obs.pending_update
    /\ obs' = [obs EXCEPT !.pending_update = TRUE]
    /\ UNCHANGED ObsOthers

\* the debounce task wakes after its sleep and emits the pane's pane_update
ObsDebounceFire ==
    /\ obs.pending_update
    /\ obs' = Emit([obs EXCEPT !.pending_update = FALSE])
    /\ UNCHANGED ObsOthers

\* the client's reader ends (EOF or read error)
ObsClientLost ==
    /\ obs.attached
    /\ obs.pc # "sm_stop_blocked"
    /\ obs.lost < MaxLost
    /\ obs' = [obs EXCEPT !.attached = FALSE, !.lost = @ + 1]
    /\ UNCHANGED ObsOthers

\* a reconnect task of the running manager attaches a new client
ObsReconnected ==
    /\ obs.session_manager = "held"
    /\ obs.sm_running
    /\ obs.protocol
    /\ obs.lost > 0
    /\ ~obs.attached
    /\ obs' = [obs EXCEPT !.attached = TRUE]
    /\ UNCHANGED ObsOthers

\* the polling task polls the pane and emits its pane_update
ObsPollRound ==
    /\ obs.poll_live > 0
    /\ obs.polls < MaxPolls
    /\ obs' = Emit([obs EXCEPT !.polls = @ + 1])
    /\ UNCHANGED ObsOthers

\* an observer constructed for either mode, on a host where the control protocol
\* can or cannot be spawned
ObsInit ==
    /\ panes = <<>>
    /\ lastCall = NoCall
    /\ ObsIdle
    /\ CtlIdle
    /\ fn = <<>>
    /\ refs = <<>>
    /\ screen = <<>>
    /\ api = <<>>
    /\ raises = <<>>
    /\ \E use_control_mode \in BOOLEAN, protocol \in BOOLEAN :
           obs = NewObserver(use_control_mode, protocol)

ObsNext ==
    \/ ObsStart
    \/ ObsManagerStarted
    \/ ObsInitialDiscovery
    \/ ObsInitialCapture
    \/ ObsPollingDiscovered
    \/ ObsStop
    \/ ObsManagerStopped
    \/ ObsTasksCancelled
    \/ ObsOutput
    \/ ObsDebounceFire
    \/ ObsClientLost
    \/ ObsReconnected
    \/ ObsPollRound

SpecObserver == ObsInit /\ [][ObsNext]_vars

(***************************************************************************)
(* Properties of the observer's lifecycle.                                  *)
(***************************************************************************)
\* start() has returned and no stop() was called since
Started == obs.last = "start" /\ obs.pc = "idle" /\ obs.running

\* stop() has returned and no start() was called since
Stopped == obs.last = "stop" /\ obs.pc = "idle" /\ ~obs.running

\* C14: when the streaming start sequence raises, start() has returned all the
\* same, with the observer running, the mode polling, and one discovery and one
\* polling task launched.
C14_FallbackToPolling ==
    (obs.cm_failed /\ obs.last = "start" /\ obs.pc = "idle") =>
        /\ obs.running
        /\ obs.mode = "polling"
        /\ obs.discovery_task = "task" /\ obs.disc_live = 1
        /\ obs.polling_task = "task" /\ obs.poll_live = 1

\* start() returned in polling mode after the manager's start() raises
C14_FellBack == obs.cm_failed /\ Started /\ obs.mode = "polling" /\ obs.poll_live = 1

C16_UnavailableMeansPolling ==
    (obs.use_control_mode /\ ~obs.protocol /\ Started) => obs.mode = "polling"

\* C17: before the first start the observer is not running with mode none; after
\* stop() returned it is not running, its mode is none and its discovery and
\* polling tasks are gone; a start() on a running observer and a stop() on a
\* stopped one change nothing.
C17_StartStopIdempotent ==
    /\ [](obs.calls = 0 => (~obs.running /\ obs.mode = "none"))
    /\ [](Stopped =>
              /\ obs.mode = "none"
              /\ obs.discovery_task = "none" /\ obs.disc_live = 0
              /\ obs.polling_task = "none" /\ obs.poll_live = 0)
    /\ [][(obs.pc = "idle" /\ obs'.calls = obs.calls + 1
              /\ obs'.running = obs.running)
          => IF obs.running
             THEN obs' = [obs EXCEPT !.calls = @ + 1, !.noop_starts = @ + 1]
             ELSE obs' = [obs EXCEPT !.calls = @ + 1, !.noop_stops = @ + 1]]_vars

\* start, start again, stop, stop again: the second of each was a no-op
C17_BothNoops == Stopped /\ obs.noop_starts = 1 /\ obs.noop_stops = 1 /\ obs.calls = 4

\* C18: no event is emitted to the subscribers after stop() has returned.
C18_NoEventAfterStop == ~obs.late_event

(***************************************************************************)
(* control_mode/escaping.py: escape_input and unescape_output.  A string is *)
(* the sequence of its characters' codes (ord / chr).                       *)
(***************************************************************************)
BACKSLASH == 92
ZERO == 48

\* newline, unit separator (31), space (32), backslash, the digits 0 1 2 and 8
EscChars == {10, 31, 32, BACKSLASH, ZERO, 49, 50, 56}

\* the strings of at most n characters
EscStrings(n) == UNION {[1..k -> EscChars] : k \in 0..n}

\* [0-7]
IsOctalDigit(c) == c \in ZERO..(ZERO + 7)

\* f'\\{code:03o}'
Octal3(code) ==
    <<BACKSLASH, ZERO + ((code \div 64) % 8), ZERO + ((code \div 8) % 8), ZERO + (code % 8)>>

\* an escaping that leaves the backslash as it is
EscapeControlOnly(code) == IF code < 32 THEN Octal3(code) ELSE <<code>>

\* escape_input, one character: if code < 32 or char == '\\'
EscapeChar(code) == IF code < 32 \/ code = BACKSLASH THEN Octal3(code) ELSE <<code>>

RECURSIVE escape_input(_)
escape_input(data) ==
    IF data = <<>> THEN <<>>
    ELSE EscapeChar(Head(data)) \o escape_input(Tail(data))

\* _OCTAL_PATTERN matches at the head of data: a backslash and three octal digits
OctalAtHead(data) ==
    /\ Len(data) >= 4
    /\ data[1] = BACKSLASH
    /\ IsOctalDigit(data[2]) /\ IsOctalDigit(data[3]) /\ IsOctalDigit(data[4])

\* replace_octal: chr(int(octal_value, 8))
ReplaceOctal(data) == 64 * (data[2] - ZERO) + 8 * (data[3] - ZERO) + (data[4] - ZERO)

\* _OCTAL_PATTERN.sub(replace_octal, data): the matches are taken from left to
\* right and do not overlap
RECURSIVE unescape_output(_)
unescape_output(data) ==
    IF data = <<>> THEN <<>>
    ELSE IF OctalAtHead(data)
    THEN <<ReplaceOctal(data)>> \o unescape_output(SubSeq(data, 5, Len(data)))
    ELSE <<Head(data)>> \o unescape_output(Tail(data))

EscOthers == <<panes, lastCall, obsVars, cliVars, mgrVars, obs, refs, screen, api, raises>>

\* escape_input(s)
FnEscape ==
    /\ fn.stage = "input"
    /\ fn' = [fn EXCEPT !.stage = "escaped", !.result = escape_input(fn.input)]
    /\ UNCHANGED EscOthers

\* unescape_output(escape_input(s))
FnUnescape ==
    /\ fn.stage = "escaped"
    /\ fn' = [fn EXCEPT !.stage = "unescaped", !.result = unescape_output(fn.result)]
    /\ UNCHANGED EscOthers

\* unescape_output(s) on a string as the multiplexer may send it
FnDecode ==
    /\ fn.stage = "input"
    /\ fn' = [fn EXCEPT !.stage = "decoded", !.result = unescape_output(fn.input)]
    /\ UNCHANGED EscOthers

EscInit ==
    /\ panes = <<>>
    /\ lastCall = NoCall
    /\ ObsIdle
    /\ CtlIdle
    /\ obs = <<>>
    /\ api = <<>>
    /\ raises = <<>>
    /\ \E s \in EscStrings(MaxStr) : fn = [input |-> s, stage |-> "input", result |-> <<>>]
    /\ refs = <<>>
    /\ screen = <<>>

EscNext ==
    \/ FnEscape
    \/ FnUnescape
    \/ FnDecode

SpecEscaping == EscInit /\ [][EscNext]_vars

\* C19: unescape_output(escape_input(s)) = s for every string s, control
\* characters, newline and backslash included; unescape_output turns a \ooo triple
\* into the character with that code, and "hello\012world\134" into hello,
\* newline, world, backslash.
C19_RoundTrip ==
    /\ fn.stage = "unescaped" => fn.result = fn.input
    /\ (fn.stage = "decoded" /\ Len(fn.input) = 4 /\ OctalAtHead(fn.input)) =>
           fn.result = <<64 * (fn.input[2] - ZERO) + 8 * (fn.input[3] - ZERO)
                             + (fn.input[4] - ZERO)>>
    /\ unescape_output(<<104, 101, 108, 108, 111, 92, 48, 49, 50,
                         119, 111, 114, 108, 100, 92, 49, 51, 52>>)
           = <<104, 101, 108, 108, 111, 10, 119, 111, 114, 108, 100, 92>>

\* a backslash followed by the digits 0 1 2 went through escape_input and back
C19_BackslashDigitsRoundTrip ==
    /\ fn.stage = "unescaped"
    /\ fn.input = <<BACKSLASH, ZERO, 49, 50>>
    /\ fn.result = fn.input

(***************************************************************************)
(* The status of one registered pane under both observation modes: the     *)
(* debounce task's _emit_pane_update (streaming), the _poll_pane coroutines *)
(* that _poll_all_panes gathers (polling), and the input-send route that    *)
(* clears a request.  The coroutines are kept in tasks by their position.   *)
(***************************************************************************)
StatusPane == "%0"

\* hashlib.sha256("\n".join(lines[-50:]).encode()).hexdigest(): one digest per
\* content, none of them the empty string
Sha256Hex(content) ==
    IF content = <<>> THEN "h1"
    ELSE IF content = <<"a">> THEN "h2"
    ELSE IF content = <<INPUT_MARKER>> THEN "h3"
    ELSE IF content = <<"b">> THEN "h5"
    ELSE "h4"

\* a _poll_pane coroutine awaiting its capture; a send-input request awaiting send_keys
PollTask(pane_id) == [NewTask(pane_id) EXCEPT !.pc = "poll_capture", !.current = FALSE]
ApiTask(pane_id) == [NewTask(pane_id) EXCEPT !.pc = "send_keys", !.current = FALSE]

StatusOthers == <<cliVars, mgrVars, auxVars, lastCall, mode, topology, disc, bursts>>

\* _poll_all_panes: a _poll_pane coroutine is started for the registered pane
PollStart ==
    /\ mode = "polling"
    /\ StatusPane \in DOMAIN panes
    /\ ~\E t \in tasks : t.pc \in {"poll_capture", "poll_cursor", "poll_emit"}
    /\ tasks' = tasks \cup {PollTask(StatusPane)}
    /\ UNCHANGED <<StatusOthers, panes, received, updates>>

\* _poll_pane: capture_pane returns rows, or raises (the error is logged and the
\* poll of the pane ends)
PollCaptureDone ==
    /\ \E t \in tasks :
           /\ t.pc = "poll_capture"
           /\ \E res \in CaptureResults :
                  tasks' = IF res = CaptureFailed THEN tasks \ {t}
                           ELSE StepTask(t, [t EXCEPT !.pc = "poll_cursor", !.lines = res])
    /\ UNCHANGED <<StatusOthers, panes, received, updates>>

\* _poll_pane after the cursor query: the rows are hashed and stored; on a change
\* the request is set or cleared from the parsed rows, the cursor is assigned to
\* the pane object and the pane_update is emitted.  PaneState declares no cursor
\* field: the assignment is either accepted or raises, which ends the poll with
\* the error logged and no event.
PollCursorDoneWith(t, cursor_pos, accepted) ==
    LET pane_id == t.pane
        lines == t.lines
        output_hash == Sha256Hex(Join(LastN(lines, hash_lines)))
        r == update_output(panes, pane_id, lines, output_hash)
        input_request == parse(lines)
        P1 == r.panes
        P2 == IF input_request # None
              THEN set_input_request(P1, pane_id, input_request).panes
              ELSE IF P1[pane_id].input_request # None /\ ~has_input_marker(lines)
                   THEN clear_input_request(P1, pane_id).panes
                   ELSE P1
    IN IF cursor_pos = CaptureFailed \/ ~r.ret
       THEN /\ tasks' = tasks \ {t}
            /\ UNCHANGED <<panes, received, updates>>
       ELSE /\ panes' = P2
            /\ IF accepted
               THEN LET ev == PaneUpdateEvent(P2, pane_id, lines, CursorOf(cursor_pos, lines))
                    IN /\ CanEmit
                       /\ received' = Deliver(received, 1, ev)
                       /\ tasks' = StepTask(t, [t EXCEPT !.pc = "poll_emit", !.cb = 1,
                                                        !.ev = ev])
                       /\ updates' = [updates EXCEPT ![pane_id] = @ + 1]
               ELSE /\ tasks' = tasks \ {t}
                    /\ UNCHANGED <<received, updates>>

PollCursorDone ==
    /\ \E t \in tasks :
           /\ t.pc = "poll_cursor"
           /\ \E cursor_pos \in CursorOutcomes, accepted \in BOOLEAN :
                  PollCursorDoneWith(t, cursor_pos, accepted)
    /\ UNCHANGED StatusOthers

\* _emit_event of a poll: the awaited callback returns; the next one is called, or
\* the poll of the pane ends
PollEmitReturn ==
    /\ \E t \in tasks, outcome \in CallbackOutcomes :
           /\ t.pc = "poll_emit"
           /\ outcome = "raised" => MayRaise
           /\ raises' = Raise(callbacks[t.cb], outcome)
           /\ IF Continues(outcome) /\ t.cb < NumCallbacks
              THEN /\ received' = Deliver(received, t.cb + 1, t.ev)
                   /\ tasks' = StepTask(t, [t EXCEPT !.cb = @ + 1])
              ELSE /\ tasks' = tasks \ {t}
                   /\ UNCHANGED received
    /\ UNCHANGED <<cliVars, mgrVars, obs, fn, refs, screen, api, lastCall, mode, topology, disc, bursts,
                   panes, updates>>

\* pane ids a send-input request names: the registered pane and an unknown one
ApiPaneIds == {StatusPane, "%9"}
NoRequest == [pane_id |-> "none", input_type |-> "none", sent |-> FALSE, status_code |-> 0]

\* registry.get: the pane's state, or None
get(P, pane_id) == IF pane_id \in DOMAIN P THEN Some(P[pane_id]) ELSE None

\* the type check of a send-input request against the pane read from the registry
TypeMismatchIgnored(pane, input_type) == FALSE
TypeMismatch(pane, input_type) ==
    pane.input_request # None /\ pane.input_request[1].input_type # input_type

\* POST /panes/{pane_id}/input up to tmux.send_keys: 404 for an unknown pane, 400
\* for a pane that is not waiting for input or for a submission of another type
\* than the pending request; else send_keys is called with the value
ApiSendInput ==
    /\ ~\E t \in tasks : t.pc = "send_keys"
    /\ \E pane_id \in ApiPaneIds, input_type \in InputTypes :
           LET pane == get(panes, pane_id)
               req == [pane_id |-> pane_id, input_type |-> input_type,
                       sent |-> FALSE, status_code |-> 0]
           IN IF pane = None
              THEN /\ api' = [req EXCEPT !.status_code = 404]
                   /\ UNCHANGED tasks
              ELSE IF pane[1].status # "waiting_input"
              THEN /\ api' = [req EXCEPT !.status_code = 400]
                   /\ UNCHANGED tasks
              ELSE IF TypeMismatch(pane[1], input_type)
              THEN /\ api' = [req EXCEPT !.status_code = 400]
                   /\ UNCHANGED tasks
              ELSE /\ api' = [req EXCEPT !.sent = TRUE]
                   /\ tasks' = tasks \cup {ApiTask(pane_id)}
    /\ UNCHANGED <<cliVars, mgrVars, obs, fn, refs, screen, raises, lastCall, mode, topology, disc, bursts,
                   panes, received, updates>>

\* send_keys returned: on failure 500 and nothing else; on success
\* registry.clear_input_request and the response 200
InputSent(t, success) ==
    /\ t.pc = "send_keys"
    /\ IF ~success
       THEN /\ api' = [api EXCEPT !.status_code = 500]
            /\ UNCHANGED panes
       ELSE /\ panes' = clear_input_request(panes, t.pane).panes
            /\ api' = [api EXCEPT !.status_code = 200]
    /\ tasks' = tasks \ {t}

ApiInputSent ==
    /\ \E t \in tasks, success \in BOOLEAN : InputSent(t, success)
    /\ UNCHANGED <<cliVars, mgrVars, obs, fn, refs, screen, raises, lastCall, mode, topology, disc, bursts,
                   received, updates>>

\* the pane as _add_pane registered it, or waiting on a request the parser returned
StatusStates ==
    {NewPaneState,
     [NewPaneState EXCEPT !.status = "waiting_input",
                          !.input_request = parse(<< <<INPUT_MARKER>>, <<"PROMPT:", "a">> >>)]}

\* the observer runs in either mode with the pane discovered: fresh, or waiting
\* for input
StatusInit ==
    /\ \E st \in StatusStates : panes = [p \in {StatusPane} |-> st]
    /\ lastCall = NoCall
    /\ mode \in {"control_mode", "polling"}
    /\ topology = [s \in Sessions |-> IF s = "s1" THEN {StatusPane} ELSE {}]
    /\ disc = IdleRun
    /\ tasks = {}
    /\ received = [k \in 1..NumCallbacks |-> <<>>]
    /\ bursts = [p \in PaneIds |-> 0]
    /\ updates = [p \in PaneIds |-> 0]
    /\ CtlIdle
    /\ obs = <<>>
    /\ fn = <<>>
    /\ refs = <<>>
    /\ screen = <<>>
    /\ api = NoRequest
    /\ raises = <<>>

StatusNext ==
    \/ HandleOutput
    \/ TimerExpire
    \/ CaptureDone
    \/ CursorDone
    \/ EmitReturn
    \/ PollStart
    \/ PollCaptureDone
    \/ PollCursorDone
    \/ PollEmitReturn
    \/ ApiSendInput
    \/ ApiInputSent

SpecStatus == StatusInit /\ [][StatusNext]_vars

\* the status rule for rows L: a parsed request is set with status waiting_input;
\* else a request the pane had is cleared, with status running, when L has no
\* marker; else nothing changes
StatusRule(before, after, L) ==
    IF parse(L) # None
    THEN after.status = "waiting_input" /\ after.input_request = parse(L)
    ELSE IF before.input_request # None /\ ~has_input_marker(L)
    THEN after.status = "running" /\ after.input_request = None
    ELSE after.status = before.status /\ after.input_request = before.input_request

\* C20: when a capture with rows L has been processed for the registered pane (a
\* pane-update emission of a debounce task, or a changed poll), the pane's status
\* and input_request follow the status rule for L, and the pane_update emitted
\* carries the resulting status and input_request.
C20_StatusMachine ==
    [][/\ \A t2 \in tasks' \ tasks :
              (t2.pc \in {"emit", "poll_emit"} /\ t2.cb = 1) =>
                  /\ StatusRule(panes[t2.pane], panes'[t2.pane], t2.ev.lines)
                  /\ t2.ev.event = "pane_update"
                  /\ t2.ev.status = panes'[t2.pane].status
                  /\ t2.ev.input_request = panes'[t2.pane].input_request
       /\ \A t \in tasks \ tasks' :
              (t.pc = "poll_cursor"
                  /\ panes'[t.pane].last_output_hash # panes[t.pane].last_output_hash)
              => StatusRule(panes[t.pane], panes'[t.pane], t.lines)]_vars

\* a subscriber received a pane_update with status waiting_input and the parsed
\* request, and later one with status running and no request
C20_RequestSetThenCleared ==
    \E i, j \in 1..Len(received[1]) :
        /\ i < j
        /\ received[1][i].status = "waiting_input"
        /\ received[1][i].input_request # None
        /\ received[1][j].status = "running"
        /\ received[1][j].input_request = None

\* C21: the send-input route calls send_keys only for a registered pane whose
\* status is waiting_input and whose pending request has the submitted type; a
\* rejected request (404 or 400) sends no keys and leaves the registry as it was;
\* a successful send clears the request and sets the status running; a failed
\* send (500) leaves the registry, and with it the pending request, as it was.
C21_InputEndpoint ==
    [][/\ \A t \in tasks' \ tasks :
              t.pc = "send_keys" =>
                  /\ t.pane \in DOMAIN panes
                  /\ panes[t.pane].status = "waiting_input"
                  /\ panes[t.pane].input_request # None
                  /\ panes[t.pane].input_request[1].input_type = api'.input_type
                  /\ api'.sent
       /\ (api' # api /\ api'.status_code \in {400, 404}) =>
              /\ ~api'.sent
              /\ panes' = panes
              /\ tasks' = tasks
              /\ \/ api'.pane_id \notin DOMAIN panes
                 \/ panes[api'.pane_id].status # "waiting_input"
                 \/ panes[api'.pane_id].input_request[1].input_type # api'.input_type
       /\ (api' # api /\ api'.status_code = 200) =>
              /\ api.sent
              /\ panes'[api.pane_id].input_request = None
              /\ panes'[api.pane_id].status = "running"
       /\ (api' # api /\ api'.status_code = 500) =>
              /\ api.sent
              /\ panes' = panes]_vars

\* a request the observer parsed was answered through the route: the send
\* succeeded, and the pane is running without a request
C21_SentAndCleared ==
    /\ api.status_code = 200
    /\ api.sent
    /\ panes[StatusPane].status = "running"
    /\ panes[StatusPane].input_request = None
    /\ \E i \in 1..Len(received[1]) : received[1][i].status = "waiting_input"

\* a step that ends the registered pane's poll after its capture succeeded
PollDecides(t) ==
    /\ t \in tasks
    /\ t.pc = "poll_cursor"
    /\ \A u \in tasks' : u.pc # "poll_cursor"

\* the captured tail's fingerprint differs from the one stored for the pane
FingerprintDiffers(t) ==
    Sha256Hex(Join(LastN(t.lines, hash_lines))) # panes[t.pane].last_output_hash

\* C25: in polling mode a poll of a registered pane whose capture succeeded emits
\* a pane_update if and only if the fingerprint of the captured tail differs from
\* the stored one; with equal fingerprints nothing is emitted and the registry
\* entry is unchanged, with different ones the stored lines become the captured
\* lines.
C25_PollEmitsIffChanged ==
    [][\A t \in tasks :
           PollDecides(t) =>
               /\ (received' # received) <=> FingerprintDiffers(t)
               /\ ~FingerprintDiffers(t) => panes' = panes
               /\ FingerprintDiffers(t) => panes'[t.pane].last_lines = t.lines]_vars

(***************************************************************************)
(* Callbacks that raise.  A behaviour follows either the observer, which    *)
(* discovers one pane and reports it in either mode to two subscribers, or  *)
(* a session client, which reads notifications for its three callbacks.     *)
(* The calls that raise are counted.                                        *)
(***************************************************************************)
CbInit ==
    /\ lastCall = NoCall
    /\ panes = <<>>
    /\ mgr = <<>>
    /\ obs = <<>>
    /\ fn = <<>>
    /\ refs = <<>>
    /\ screen = <<>>
    /\ api = <<>>
    /\ raises = NoRaise
    /\ \/ /\ mode \in {"control_mode", "polling"}
          /\ topology = [s \in Sessions |-> IF s = "s1" THEN {StatusPane} ELSE {}]
          /\ disc = IdleRun
          /\ tasks = {}
          /\ received = [k \in 1..NumCallbacks |-> <<>>]
          /\ bursts = [p \in PaneIds |-> 0]
          /\ updates = [p \in PaneIds |-> 0]
          /\ client = <<>>
          /\ wire = <<>>
       \/ /\ ObsIdle
          /\ client = NewClient
          /\ wire = NoWire

CbObserver ==
    /\ mode # "none"
    /\ \/ DiscEnumerate
       \/ DiscCaptureDone
       \/ DiscCallbackReturn
       \/ HandleOutput
       \/ TimerExpire
       \/ CaptureDone
       \/ CursorDone
       \/ EmitReturn
       \/ PollStart
       \/ PollCaptureDone
       \/ PollCursorDone
       \/ PollEmitReturn

CbClient ==
    /\ client # <<>>
    /\ \/ CliStart
       \/ CliRead
       \/ CliEOF
       \/ CliDisconnectReturn

CbNext ==
    \/ CbObserver
    \/ CbClient

SpecCallbacks == CbInit /\ [][CbNext]_vars

\* the emission that awaited subscriber k: its event, and whether this step took
\* it to the next subscriber or, after the last one, let its operation go on
EmissionWent(k) ==
    \/ /\ disc.pc = "emit" /\ disc.cb = k
       /\ IF k < NumCallbacks
          THEN /\ disc' = [disc EXCEPT !.cb = k + 1]
               /\ received' = Deliver(received, k + 1, disc.ev)
          ELSE /\ received'[k] = received[k]
               /\ disc'.pc \in {"add_capture", "emit", "idle"}
               /\ disc'.pc = "idle" =>
                      /\ disc.removed_ids = {}
                      /\ ~\E i \in disc.idx..Len(disc.tmux_panes) :
                              disc.tmux_panes[i] \in disc.new_ids
    \/ \E t \in tasks :
           /\ t.pc \in {"emit", "poll_emit"} /\ t.cb = k
           /\ IF k < NumCallbacks
              THEN /\ tasks' = StepTask(t, [t EXCEPT !.cb = k + 1])
                   /\ received' = Deliver(received, k + 1, t.ev)
              ELSE /\ t \notin tasks'
                   /\ received' = received

\* C22: a callback that raises does not stop its caller.  When an event subscriber
\* raises, the same event goes to the next subscriber, and after the last one the
\* emitting operation (discovery run, poll, debounce task) goes on as after a
\* return; when an output, window or session callback of a session client raises,
\* the client is left as it was: running, its reader reading, on_disconnect not
\* called.
C22_CallbackErrorsContained ==
    [][raises' # raises =>
          /\ \A k \in 1..NumCallbacks : raises'.by = callbacks[k] => EmissionWent(k)
          /\ raises'.by \in {CallbackOf[m] : m \in DOMAIN CallbackOf} =>
                 /\ client' = client
                 /\ client.running
                 /\ client.reader_task = "reading"]_vars

\* the first subscriber raised on an event; the second one has received every
\* event the first was called with, a pane_update among them, and the emitting
\* operations have ended
C22_OthersStillReceive ==
    /\ raises = [by |-> "cb1", n |-> 1]
    /\ received[2] = received[1]
    /\ \E i \in 1..Len(received[2]) : received[2][i].event = "pane_update"
    /\ tasks = {}
    /\ disc.pc = "idle"

(***************************************************************************)
(* Object identity in the registry.  The registry of one pane and a caller  *)
(* that keeps what it got from get / get_all / get_output / get_pane_ids    *)
(* and the list it passed to update_output.  A kept value that is the       *)
(* registry's own object (alias) has the value the registry has; a copy has *)
(* its own value.                                                            *)
(***************************************************************************)
NoRefs ==
    [op |-> "none",
     held |-> [kind |-> "none", alias |-> FALSE, value |-> <<>>],
     arg |-> [given |-> FALSE, alias |-> FALSE, value |-> <<>>]]

\* the value the caller sees in what it holds, with registry P
HeldValue(r, P) ==
    IF ~r.held.alias THEN r.held.value
    ELSE IF r.held.kind = "pane" THEN P[StatusPane]
    ELSE << P[StatusPane] >>
ArgValue(r, P) == IF r.arg.alias THEN P[StatusPane].last_lines ELSE r.arg.value

\* the arguments the caller passes
AlLines == {<<>>, << <<"a">> >>}
AlHashes == {"", "h1"}
AlData == {<<"a">>, <<"\n">>}
AlStatus == {"running", "idle"}

AlOthers == <<lastCall, obsVars, cliVars, mgrVars, obs, fn, screen, api, raises>>

\* get: self._panes.get(pane_id), the PaneState object of the registry
AlGet ==
    /\ refs' = [refs EXCEPT !.op = "get",
                            !.held = [kind |-> "pane", alias |-> TRUE, value |-> <<>>]]
    /\ UNCHANGED <<panes, AlOthers>>

\* get_all: list(self._panes.values()), a new list of the registry's objects
AlGetAll ==
    /\ refs' = [refs EXCEPT !.op = "get_all",
                            !.held = [kind |-> "all", alias |-> TRUE, value |-> <<>>]]
    /\ UNCHANGED <<panes, AlOthers>>

\* get_output: list(pane.last_lines), a new list of the (immutable) lines
AlGetOutput ==
    /\ refs' = [refs EXCEPT !.op = "get_output",
                            !.held = [kind |-> "output", alias |-> FALSE,
                                      value |-> get_output(panes, StatusPane)]]
    /\ UNCHANGED <<panes, AlOthers>>

\* get_pane_ids: set(self._panes.keys()), a new set
AlGetPaneIds ==
    /\ refs' = [refs EXCEPT !.op = "get_pane_ids",
                            !.held = [kind |-> "ids", alias |-> FALSE,
                                      value |-> DOMAIN panes]]
    /\ UNCHANGED <<panes, AlOthers>>

\* update_output(id, lines, hash): on a change pane.last_lines = lines binds the
\* caller's list object
AlUpdateOutput ==
    /\ \E lines \in AlLines, h \in AlHashes :
           LET r == update_output(panes, StatusPane, lines, h)
           IN /\ panes' = r.panes
              /\ refs' = [refs EXCEPT !.op = "update_output",
                                      !.arg = IF r.ret
                                              THEN [given |-> TRUE, alias |-> TRUE,
                                                    value |-> <<>>]
                                              ELSE @]
    /\ UNCHANGED AlOthers

\* append_output(id, data): on a non-empty list the last line is extended and the
\* new lines are appended in place, then a list over max_lines is replaced by its
\* tail slice; an empty list is replaced by the new lines
AlAppendOutput ==
    /\ \E data \in AlData :
           LET old == panes[StatusPane].last_lines
               r == append_output(panes, StatusPane, data, max_lines)
               in_place == append_output(panes, StatusPane, data,
                                         Len(old) + Len(data) + 1).panes[StatusPane].last_lines
               rebound == data # <<>> /\ (old = <<>> \/ Len(in_place) > max_lines)
           IN /\ \A i \in 1..Len(in_place) : Len(in_place[i]) <= MaxLineLen
              /\ panes' = r.panes
              /\ refs' = [refs EXCEPT !.op = "append_output",
                                      !.arg = IF @.alias /\ rebound
                                              THEN [@ EXCEPT !.alias = FALSE,
                                                             !.value = IF old = <<>> THEN old
                                                                       ELSE in_place]
                                              ELSE @]
    /\ UNCHANGED AlOthers

\* update_status / set_input_request / clear_input_request: fields of the
\* registry's PaneState object are assigned
AlUpdateStatus ==
    /\ \E status \in AlStatus :
           panes' = update_status(panes, StatusPane, status).panes
    /\ refs' = [refs EXCEPT !.op = "update_status"]
    /\ UNCHANGED AlOthers

AlSetInputRequest ==
    /\ panes' = set_input_request(panes, StatusPane, Some("text")).panes
    /\ refs' = [refs EXCEPT !.op = "set_input_request"]
    /\ UNCHANGED AlOthers

AlClearInputRequest ==
    /\ panes' = clear_input_request(panes, StatusPane).panes
    /\ refs' = [refs EXCEPT !.op = "clear_input_request"]
    /\ UNCHANGED AlOthers

\* the caller changes what it was given: assigns the status of a returned
\* PaneState, appends a line to a returned list, adds an id to a returned set
AlMutateReturned ==
    /\ refs.held.kind # "none"
    /\ IF refs.held.alias
       THEN /\ panes' = [panes EXCEPT ![StatusPane].status = "exited"]
            /\ refs' = [refs EXCEPT !.op = "mutate_returned"]
       ELSE /\ refs.held.kind = "output" => Len(refs.held.value) < max_lines + 1
            /\ refs' = [refs EXCEPT !.op = "mutate_returned",
                                    !.held.value = IF refs.held.kind = "output"
                                                   THEN Append(@, <<"a">>)
                                                   ELSE @ \cup {"%9"}]
            /\ UNCHANGED panes
    /\ UNCHANGED AlOthers

\* the caller appends a line to the list it passed to update_output
AlMutateArg ==
    /\ refs.arg.given
    /\ Len(ArgValue(refs, panes)) < max_lines + 1
    /\ IF refs.arg.alias
       THEN /\ panes' = [panes EXCEPT ![StatusPane].last_lines = Append(@, <<"a">>)]
            /\ refs' = [refs EXCEPT !.op = "mutate_arg"]
       ELSE /\ refs' = [refs EXCEPT !.op = "mutate_arg", !.arg.value = Append(@, <<"a">>)]
            /\ UNCHANGED panes
    /\ UNCHANGED AlOthers

\* the registry holds one pane, inserted by _add_pane
AlInit ==
    /\ panes = [p \in {StatusPane} |-> NewPaneState]
    /\ lastCall = NoCall
    /\ ObsIdle
    /\ CtlIdle
    /\ obs = <<>>
    /\ fn = <<>>
    /\ api = <<>>
    /\ raises = <<>>
    /\ refs = NoRefs
    /\ screen = <<>>

AlNext ==
    \/ AlGet
    \/ AlGetAll
    \/ AlGetOutput
    \/ AlGetPaneIds
    \/ AlUpdateOutput
    \/ AlAppendOutput
    \/ AlUpdateStatus
    \/ AlSetInputRequest
    \/ AlClearInputRequest
    \/ AlMutateReturned
    \/ AlMutateArg

SpecAliasing == AlInit /\ [][AlNext]_vars

\* C23: what the registry returned is a snapshot.  A registry mutation
\* (update_output, append_output, update_status, set_input_request,
\* clear_input_request) leaves the value a caller got earlier from get, get_all,
\* get_output or get_pane_ids as it was, and leaves a list passed earlier to
\* update_output as it was; a caller changing a returned value, or a list it
\* passed to update_output, leaves the registry as it was.
C23_ReturnedValuesAreSnapshots ==
    [][/\ refs'.op \in {"update_output", "append_output", "update_status",
                        "set_input_request", "clear_input_request"} =>
              HeldValue(refs', panes') = HeldValue(refs, panes)
       /\ refs'.op \in {"mutate_returned", "mutate_arg"} => panes' = panes]_vars

(***************************************************************************)
(* The observer and the content of one pane.  The pane exists in the        *)
(* multiplexer from the start and is registered by the first discovery run; *)
(* its content changes a bounded number of times, each time to rows it has  *)
(* not had before; in streaming mode the session client reads the %output   *)
(* of a change at once.  Captures return the content; the discovery run,    *)
(* the debounce tasks and the polls are scheduled fairly.                    *)
(***************************************************************************)
ScreenRows == {<<"a">>, <<"b">>}
ScreenContents == {<<r1, r2>> : r1 \in ScreenRows, r2 \in ScreenRows}
NewScreen == [content |-> << <<"a">>, <<"a">> >>, changes |-> 0,
              seen |-> {<< <<"a">>, <<"a">> >>}]

\* the pane's content changes; in control mode the %output notification goes to
\* _handle_control_mode_output, which drops it for a pane that is not registered
ConsChange ==
    /\ screen.changes < MaxScreen
    /\ \E c \in ScreenContents \ screen.seen :
           screen' = [content |-> c, changes |-> screen.changes + 1,
                      seen |-> screen.seen \cup {c}]
    /\ IF mode = "control_mode" /\ StatusPane \in DOMAIN panes
       THEN \E data \in ObsData : HandleOutputFor(StatusPane, data)
       ELSE UNCHANGED <<panes, tasks, bursts>>
    /\ UNCHANGED <<cliVars, mgrVars, obs, fn, refs, api, raises, lastCall, mode, topology,
                   disc, received, updates>>

ConsInit ==
    /\ panes = <<>>
    /\ lastCall = NoCall
    /\ mode \in {"control_mode", "polling"}
    /\ topology = [s \in Sessions |-> IF s = "s1" THEN {StatusPane} ELSE {}]
    /\ disc = IdleRun
    /\ tasks = {}
    /\ received = [k \in 1..NumCallbacks |-> <<>>]
    /\ bursts = [p \in PaneIds |-> 0]
    /\ updates = [p \in PaneIds |-> 0]
    /\ CtlIdle
    /\ obs = <<>>
    /\ fn = <<>>
    /\ refs = <<>>
    /\ api = <<>>
    /\ raises = <<>>
    /\ screen = NewScreen

ConsNext ==
    \/ ConsChange
    \/ DiscEnumerate
    \/ DiscCaptureDone
    \/ DiscCallbackReturn
    \/ TimerExpire
    \/ CaptureDone
    \/ CursorDone
    \/ EmitReturn
    \/ PollStart
    \/ PollCaptureDone
    \/ PollCursorDone
    \/ PollEmitReturn

ConsFairness ==
    /\ WF_vars(DiscEnumerate)
    /\ WF_vars(DiscCaptureDone)
    /\ WF_vars(DiscCallbackReturn)
    /\ WF_vars(TimerExpire)
    /\ WF_vars(CaptureDone)
    /\ WF_vars(CursorDone)
    /\ WF_vars(EmitReturn)
    /\ WF_vars(PollStart)
    /\ WF_vars(PollCaptureDone)
    /\ WF_vars(PollCursorDone)
    /\ WF_vars(PollEmitReturn)

SpecConsistency == ConsInit /\ [][ConsNext]_vars /\ ConsFairness

\* every subscriber has received a pane_update whose lines are the pane's content
Synced ==
    \A k \in 1..NumCallbacks :
        \E i \in 1..Len(received[k]) :
            /\ received[k][i].event = "pane_update"
            /\ received[k][i].lines = screen.content

\* C24: eventual consistency.  In either mode, once the pane's content has
\* changed, a pane_update whose lines are the content is eventually emitted to
\* the subscribers (the content changes finitely often, the captures succeed, the
\* observer's tasks are scheduled fairly); this holds also for a change above
\* the hashed tail in polling mode and for output that came before the pane was
\* discovered in streaming mode.
C24_EventualConsistency == (screen.changes > 0) ~> Synced

(***************************************************************************)
(* The polling loop over two registered panes.  Each tick _poll_all_panes   *)
(* reads the registry, starts one _poll_pane coroutine per pane and gathers *)
(* them; a coroutine stays at the place it returned from until the gather   *)
(* returns.  The loop is kept in obs: its position, the ticks it began, and  *)
(* the registry and the first callback's log as they were when the tick     *)
(* began.                                                                   *)
(***************************************************************************)
\* where a _poll_pane coroutine returns: the except clause after a failed capture,
\* `changed` false, the event given to every callback, the except clause later on
PollEnds == {"capture_failed", "unchanged", "reported", "error"}

\* what capture_pane gives a poll: rows, rows with a prompt, or an exception
TickCaptures ==
    {<< <<"a">> >>, << <<INPUT_MARKER>>, <<"PROMPT:", "a">> >>, CaptureFailed}

NewLoop == [pc |-> "sleep", ticks |-> 0, at_start |-> <<>>, seen |-> 0]

TickOthers == <<cliVars, mgrVars, fn, refs, screen, api, lastCall, mode, topology, disc, bursts>>

\* _polling_loop after its sleep, _poll_all_panes: registry.get_all, one coroutine
\* per registered pane
TickStart ==
    /\ obs.pc = "sleep"
    /\ obs.ticks < MaxTicks
    /\ tasks' = {PollTask(p) : p \in DOMAIN panes}
    /\ obs' = [obs EXCEPT !.pc = "gather", !.ticks = @ + 1, !.at_start = panes,
                          !.seen = Len(received[1])]
    /\ UNCHANGED <<TickOthers, panes, received, updates, raises>>

\* _poll_pane: capture_pane returns rows, or raises and the error is logged
TickCapture ==
    /\ \E t \in tasks :
           /\ t.pc = "poll_capture"
           /\ \E res \in TickCaptures :
                  tasks' = StepTask(t, IF res = CaptureFailed
                                       THEN [t EXCEPT !.pc = "capture_failed"]
                                       ELSE [t EXCEPT !.pc = "poll_cursor", !.lines = res])
    /\ UNCHANGED <<TickOthers, obs, panes, received, updates, raises>>

\* _poll_pane from the cursor query on: the query raises; or the rows are hashed
\* and update_output reports no change; or the rows are stored, the request is
\* set or cleared, the cursor is assigned to the pane object (an assignment that
\* raises on a PaneState) and the event is given to the first callback
TickCursor ==
    /\ \E t \in tasks :
           /\ t.pc = "poll_cursor"
           /\ \E cursor_pos \in CursorOutcomes, accepted \in BOOLEAN :
                  LET pane_id == t.pane
                      lines == t.lines
                      output_hash == Sha256Hex(Join(LastN(lines, hash_lines)))
                      r == update_output(panes, pane_id, lines, output_hash)
                      input_request == parse(lines)
                      P1 == r.panes
                      P2 == IF input_request # None
                            THEN set_input_request(P1, pane_id, input_request).panes
                            ELSE IF P1[pane_id].input_request # None
                                        /\ ~has_input_marker(lines)
                                 THEN clear_input_request(P1, pane_id).panes
                                 ELSE P1
                      ev == PaneUpdateEvent(P2, pane_id, lines, CursorOf(cursor_pos, lines))
                  IN IF cursor_pos = CaptureFailed
                     THEN /\ tasks' = StepTask(t, [t EXCEPT !.pc = "error"])
                          /\ UNCHANGED <<panes, received, updates>>
                     ELSE IF ~r.ret
                     THEN /\ tasks' = StepTask(t, [t EXCEPT !.pc = "unchanged"])
                          /\ UNCHANGED <<panes, received, updates>>
                     ELSE IF ~accepted
                     THEN /\ panes' = P2
                          /\ tasks' = StepTask(t, [t EXCEPT !.pc = "error"])
                          /\ UNCHANGED <<received, updates>>
                     ELSE /\ CanEmit
                          /\ panes' = P2
                          /\ received' = Deliver(received, 1, ev)
                          /\ tasks' = StepTask(t, [t EXCEPT !.pc = "poll_emit", !.cb = 1,
                                                           !.ev = ev])
                          /\ updates' = [updates EXCEPT ![pane_id] = @ + 1]
    /\ UNCHANGED <<TickOthers, obs, raises>>

\* _emit_event of a poll: the awaited callback returns or raises; the next one is
\* called, or _poll_pane returns
TickEmitReturn ==
    /\ \E t \in tasks, outcome \in CallbackOutcomes :
           /\ t.pc = "poll_emit"
           /\ outcome = "raised" => MayRaise
           /\ raises' = Raise(callbacks[t.cb], outcome)
           /\ IF Continues(outcome) /\ t.cb < NumCallbacks
              THEN /\ received' = Deliver(received, t.cb + 1, t.ev)
                   /\ tasks' = StepTask(t, [t EXCEPT !.cb = @ + 1])
              ELSE /\ tasks' = StepTask(t, [t EXCEPT !.pc = "reported"])
                   /\ UNCHANGED received
    /\ UNCHANGED <<TickOthers, obs, panes, updates>>

\* asyncio.gather(*tasks, return_exceptions=True) returns when every coroutine
\* has; the loop goes back to its sleep
TickEnd ==
    /\ obs.pc = "gather"
    /\ \A t \in tasks : t.pc \in PollEnds
    /\ tasks' = {}
    /\ obs' = [obs EXCEPT !.pc = "sleep"]
    /\ UNCHANGED <<TickOthers, panes, received, updates, raises>>

\* polling mode with both panes discovered, the loop asleep
TickInit ==
    /\ panes = [p \in PaneIds |-> NewPaneState]
    /\ lastCall = NoCall
    /\ mode = "polling"
    /\ topology = [s \in Sessions |-> IF s = "s1" THEN PaneIds ELSE {}]
    /\ disc = IdleRun
    /\ tasks = {}
    /\ received = [k \in 1..NumCallbacks |-> <<>>]
    /\ bursts = [p \in PaneIds |-> 0]
    /\ updates = [p \in PaneIds |-> 0]
    /\ CtlIdle
    /\ obs = NewLoop
    /\ fn = <<>>
    /\ refs = <<>>
    /\ screen = <<>>
    /\ api = <<>>
    /\ raises = <<>>

TickNext ==
    \/ TickStart
    \/ TickCapture
    \/ TickCursor
    \/ TickEmitReturn
    \/ TickEnd

SpecPolling == TickInit /\ [][TickNext]_vars

\* every coroutine of the tick has returned and the gather is about to
TickOver == obs.pc = "gather" /\ tasks # {} /\ \A t \in tasks : t.pc \in PollEnds

\* the pane_update events of pane p that the first callback got in this tick
EventsOfTick(p) ==
    {i \in (obs.seen + 1)..Len(received[1]) : received[1][i].pane_id = p}

\* C26: when a tick in which the capture of one pane failed is over, no event was
\* emitted for that pane and its registry entry is as it was when the tick began,
\* while every other pane was captured and either had the stored fingerprint, or
\* had its rows stored and reported in this tick; and the loop goes on to its
\* sleep.
C26_PollFailureIsolated ==
    (TickOver /\ \E t \in tasks : t.pc = "capture_failed") =>
        /\ \A t \in tasks :
               IF t.pc = "capture_failed"
               THEN /\ EventsOfTick(t.pane) = {}
                    /\ panes[t.pane] = obs.at_start[t.pane]
               ELSE /\ t.pc \in {"unchanged", "reported"}
                    /\ t.pc = "unchanged" =>
                           /\ Sha256Hex(Join(LastN(t.lines, hash_lines)))
                                  = obs.at_start[t.pane].last_output_hash
                           /\ panes[t.pane] = obs.at_start[t.pane]
                    /\ t.pc = "reported" =>
                           /\ panes[t.pane].last_lines = t.lines
                           /\ \E i \in EventsOfTick(t.pane) : received[1][i].lines = t.lines
        /\ ENABLED TickEnd

(***************************************************************************)
(* The cursor query of an emission, in both modes.  The pane is registered  *)
(* and followed as in the status specification; obs keeps what the last     *)
(* cursor query gave, for which captured rows, and whether the emission     *)
(* depended on nothing else (in polling mode: the fingerprint had changed). *)
(***************************************************************************)
NoQuery ==
    [path |-> "none", cursor_pos |-> None, lines |-> <<>>, pane |-> StatusPane,
     changed |-> FALSE, turn |-> 0]

QueryDone(path, t, cursor_pos) ==
    [path |-> path, cursor_pos |-> cursor_pos, lines |-> t.lines, pane |-> t.pane,
     changed |-> IF path = "polling" THEN FingerprintDiffers(t) ELSE TRUE,
     turn |-> 1 - obs.turn]

CurOthers == <<cliVars, mgrVars, fn, refs, screen, api, raises, lastCall, mode, topology,
               disc, bursts>>

\* _emit_pane_update: the cursor query returns or raises
CurStreamQuery ==
    /\ \E t \in tasks :
           /\ t.pc = "cursor"
           /\ \E cursor_pos \in CursorOutcomes :
                  /\ CursorDoneWith(t, cursor_pos)
                  /\ obs' = QueryDone("streaming", t, cursor_pos)
    /\ UNCHANGED CurOthers

\* _poll_pane: the cursor query returns or raises
CurPollQuery ==
    /\ \E t \in tasks :
           /\ t.pc = "poll_cursor"
           /\ \E cursor_pos \in CursorOutcomes, accepted \in BOOLEAN :
                  /\ PollCursorDoneWith(t, cursor_pos, accepted)
                  /\ obs' = QueryDone("polling", t, cursor_pos)
    /\ UNCHANGED CurOthers

CurInit ==
    /\ panes = [p \in {StatusPane} |-> NewPaneState]
    /\ lastCall = NoCall
    /\ mode \in {"control_mode", "polling"}
    /\ topology = [s \in Sessions |-> IF s = "s1" THEN {StatusPane} ELSE {}]
    /\ disc = IdleRun
    /\ tasks = {}
    /\ received = [k \in 1..NumCallbacks |-> <<>>]
    /\ bursts = [p \in PaneIds |-> 0]
    /\ updates = [p \in PaneIds |-> 0]
    /\ CtlIdle
    /\ obs = NoQuery
    /\ fn = <<>>
    /\ refs = <<>>
    /\ screen = <<>>
    /\ api = <<>>
    /\ raises = <<>>

CurNext ==
    \/ HandleOutput
    \/ TimerExpire
    \/ CaptureDone
    \/ CurStreamQuery
    \/ EmitReturn
    \/ PollStart
    \/ PollCaptureDone
    \/ CurPollQuery
    \/ PollEmitReturn

SpecCursor == CurInit /\ [][CurNext]_vars

\* the last event the first callback got
LastEvent(recv) == recv[1][Len(recv[1])]

\* C27: when the capture succeeded and the cursor query returned nothing or
\* raised, the captured rows are stored in the registry and a pane_update with
\* the captured rows and cursor (0, 0) is emitted, in the streaming emission and
\* (the fingerprint having changed) in a poll.
C27_CursorFailureOnlyZeroes ==
    [][(obs' # obs /\ obs'.cursor_pos \in {None, CaptureFailed} /\ obs'.changed) =>
           /\ panes'[obs'.pane].last_lines = obs'.lines
           /\ Len(received'[1]) = Len(received[1]) + 1
           /\ LastEvent(received').event = "pane_update"
           /\ LastEvent(received').pane_id = obs'.pane
           /\ LastEvent(received').lines = obs'.lines
           /\ LastEvent(received').cursor_x = 0
           /\ LastEvent(received').cursor_y = 0]_vars

(***************************************************************************)
(* InputParser.parse as a function of the lines: the input is drawn from    *)
(* the line lists of up to MaxParse lines over the kinds of line the parser *)
(* tells apart, and parse is applied to it.                                 *)
(***************************************************************************)
\* the marker, the field lines, an option line and a blank line
ParseLineKinds ==
    {<<INPUT_MARKER>>, <<"TYPE:", "text">>, <<"PROMPT:", "a">>, <<"MESSAGE:", "b">>,
     <<"OPTIONS:">>, <<"1)", "c">>, <<>>}

ParseOthers == <<panes, lastCall, obsVars, cliVars, mgrVars, obs, refs, screen, api, raises>>

\* parse(lines)
FnParse ==
    /\ fn.stage = "input"
    /\ fn' = [fn EXCEPT !.stage = "parsed", !.result = parse(fn.input)]
    /\ UNCHANGED ParseOthers

ParseInit ==
    /\ panes = <<>>
    /\ lastCall = NoCall
    /\ ObsIdle
    /\ CtlIdle
    /\ obs = <<>>
    /\ api = <<>>
    /\ raises = <<>>
    /\ \E L \in SeqsUpTo(ParseLineKinds, MaxParse) :
           fn = [input |-> L, stage |-> "input", result |-> None]
    /\ refs = <<>>
    /\ screen = <<>>

ParseNext == FnParse

SpecParser == ParseInit /\ [][ParseNext]_vars

\* the index of the last line that contains the marker, 0 if there is none
LastMarker(lines) ==
    IF has_input_marker(lines)
    THEN CHOOSE i \in 1..Len(lines) :
             /\ Contains(lines[i], INPUT_MARKER)
             /\ \A j \in (i + 1)..Len(lines) : ~Contains(lines[j], INPUT_MARKER)
    ELSE 0

\* what a block holds, read off its lines: a TYPE line; an OPTIONS: line, the last
\* one, directly followed by an option line; a MESSAGE line; a PROMPT line
HasType(block) == \E i \in 1..Len(block) : TypeMatch(block[i])
HasOptions(block) ==
    \E i \in 1..Len(block) :
        /\ OptionsMatch(block[i])
        /\ \A j \in (i + 1)..Len(block) : ~OptionsMatch(block[j])
        /\ i < Len(block)
        /\ OptionLineMatch(block[i + 1])
HasMessage(block) == \E i \in 1..Len(block) : RestMatch(block[i], "MESSAGE:")
HasPrompt(block) == \E i \in 1..Len(block) : RestMatch(block[i], "PROMPT:")

\* the type the precedence gives a block without a TYPE line
InferredType(block) ==
    IF HasOptions(block) THEN Some("choice")
    ELSE IF HasMessage(block) THEN Some("confirm")
    ELSE IF HasPrompt(block) THEN Some("text")
    ELSE None

\* C28: for lines with a marker, the result of parse is the result for the lines
\* from the last marker line on; and when the block after that line has no TYPE
\* line the request has the type the precedence gives (options, then message,
\* then prompt), or there is no request when the block has none of them.
C28_InferenceAndLastMarker ==
    (fn.stage = "parsed" /\ has_input_marker(fn.input)) =>
        LET lines == fn.input
            m == LastMarker(lines)
            block == extract_block(lines, m)
        IN /\ fn.result = parse(SubSeq(lines, m, Len(lines)))
           /\ ~HasType(block) =>
                  IF InferredType(block) = None THEN fn.result = None
                  ELSE /\ fn.result # None
                       /\ fn.result[1].input_type = InferredType(block)[1]

\* parse was given two marker blocks: the earlier one alone gives a text request,
\* the later one has a message and options and no TYPE line, and the result is a
\* choice
C28_LaterBlockInferred ==
    /\ fn.stage = "parsed"
    /\ LastMarker(fn.input) > 1
    /\ LET m == LastMarker(fn.input)
           before == SubSeq(fn.input, 1, m - 1)
           block == extract_block(fn.input, m)
       IN /\ parse(before) # None
          /\ parse(before)[1].input_type = "text"
          /\ ~HasType(block)
          /\ HasMessage(block)
          /\ HasOptions(block)
    /\ fn.result # None
    /\ fn.result[1].input_type = "choice"

(***************************************************************************)
(* The command tables of a session client after send_command returned.      *)
(***************************************************************************)
\* send_command for n has returned: with a response, with the error of a failed
\* write, or with the timeout error
Returned(n) == client.futures[n].st \in {"done", "failed", "timeout"}

\* C29: once send_command for n has returned, the client holds neither a pending
\* promise nor a response buffer for n, whatever arrives later; and once the
\* %end or %error of n was processed, a response buffer for n exists only with a
\* pending promise for n.
C29_NoEntryAfterReturn ==
    client # <<>> =>
        \A n \in CmdNums :
            /\ Returned(n) =>
                   /\ n \notin client.pending_commands
                   /\ n \notin DOMAIN client.response_buffer
            /\ (wire.srv[n] = "ended" /\ n \in DOMAIN client.response_buffer) =>
                   n \in client.pending_commands

(***************************************************************************)
(* The reader of a session client with a server that also writes text      *)
(* lines outside response blocks: what becomes of an unknown line.          *)
(***************************************************************************)
LinesInit ==
    /\ panes = <<>>
    /\ lastCall = NoCall
    /\ ObsIdle
    /\ client = NewClient
    /\ wire = [NoWire EXCEPT !.stray = TRUE]
    /\ mgr = <<>>
    /\ AuxIdle

LinesNext ==
    \/ CliStart
    \/ CliSend
    \/ CliTimeout
    \/ CliRead
    \/ CliEOF
    \/ CliDisconnectReturn

SpecLines == LinesInit /\ [][LinesNext]_vars

\* the reader has read an unknown line in this step
ReadsUnknown ==
    /\ Len(wire'.log) = Len(wire.log) + 1
    /\ wire'.log[Len(wire'.log)].type = "unknown"

\* the responses in progress: begun by the server, not yet ended
InProgress == {n \in CmdNums : wire.srv[n] = "begun"}

\* the line was appended to the response buffer of n
BufferedFor(n) ==
    /\ n \in DOMAIN client.response_buffer
    /\ n \in DOMAIN client'.response_buffer
    /\ client'.response_buffer[n] =
           Append(client.response_buffer[n], wire'.log[Len(wire'.log)].text)

\* C30: an unknown line read while the response of some command is in progress
\* is appended to the response buffer of a command whose response is in progress,
\* also after another command's block began and ended; an unknown line read while
\* no response is in progress leaves the client as it is.
C30_UnknownLinePolicy ==
    [][ReadsUnknown =>
           IF InProgress # {}
           THEN \E n \in InProgress : BufferedFor(n)
           ELSE client' = client]_vars

(***************************************************************************)
(* The reconnect tasks of the session manager, one per session name.        *)
(***************************************************************************)
\* the disconnect handler of session s gets the lock and runs to its end in this
\* step
DisconnectHandled(s) ==
    /\ mgr.lock \in {Task("disconnect", s), Task("orphan", s)}
    /\ mgr'.lock # mgr.lock

\* the reconnect task of session s: where it is, its attempt and its delay
ReconnectTask(m, s) == <<m.reconnect[s], m.attempt[s], m.delay[s]>>

\* C31: the reconnect tasks are exactly the entries of the task table, one per
\* session name at most; a disconnect handled while the session's reconnect task
\* is pending leaves that task as it is and creates none, a disconnect handled on
\* a stopped manager creates none, and both remove the session from the client
\* map.
C31_OneReconnectPerSession ==
    [][/\ reconnect_tasks(mgr') = {s \in Sessions : mgr'.reconnect[s] # "none"}
       /\ \A s \in Sessions :
              DisconnectHandled(s) =>
                  /\ s \notin mgr'.clients
                  /\ mgr.reconnect[s] # "none" =>
                         ReconnectTask(mgr', s) = ReconnectTask(mgr, s)
                  /\ ~mgr.running =>
                         /\ mgr'.reconnect[s] = "none"
                         /\ reconnect_tasks(mgr') = reconnect_tasks(mgr)]_vars

\* a disconnect was handled with a reconnect task created and a later one with
\* the session's task still pending, and no client is registered
C31_DisconnectsWithoutSecondTask ==
    /\ mgr # <<>>
    /\ {"scheduled", "pending"} \subseteq mgr.disc_end
    /\ \A s \in Sessions : s \notin mgr.clients

(***************************************************************************)
(* One debounce task per pane, and the order of a pane's updates.           *)
(***************************************************************************)
\* the debounce tasks of pane p that are neither cancelled nor finished
TasksOf(T, p) == {t \in T : t.pane = p}

\* the pane_update events for pane p in a log, in order
UpdatesOf(evs, p) ==
    SelectSeq(evs, LAMBDA e : e.event = "pane_update" /\ e.pane_id = p)

\* callback k is called with a pane_update in this step
UpdateDelivered(k) ==
    /\ Len(received'[k]) = Len(received[k]) + 1
    /\ received'[k][Len(received'[k])].event = "pane_update"

\* C32: in streaming mode a pane never has more than one debounce task that is
\* scheduled and neither cancelled nor finished, and the pane_update events of a
\* pane reach every subscriber in capture order: the first subscriber is called by
\* the pane's only task with the capture that task just made, and a later
\* subscriber is called by that same task with the newest update the first
\* subscriber has, so no subscriber is given older content after newer.
C32_OneTaskAndCaptureOrder ==
    [][/\ \A p \in PaneIds : Cardinality(TasksOf(tasks', p)) <= 1
       /\ \A k \in 1..NumCallbacks :
              UpdateDelivered(k) =>
                  LET ev == received'[k][Len(received'[k])]
                      mine == TasksOf(tasks, ev.pane_id)
                  IN /\ Cardinality(mine) = 1
                     /\ \A t \in mine :
                            IF k = 1
                            THEN t.pc \in {"capture", "cursor"}
                            ELSE /\ t.pc = "emit" /\ t.cb = k - 1 /\ t.ev = ev
                                 /\ LET got == UpdatesOf(received[1], ev.pane_id)
                                    IN got # <<>> /\ got[Len(got)] = ev]_vars

\* the last subscriber has been given two updates of a pane with different content,
\* the second from a task scheduled after the first task had finished
C32_TwoUpdatesInOrder ==
    /\ mode = "control_mode"
    /\ \E p \in PaneIds :
           LET got == UpdatesOf(received[NumCallbacks], p)
           IN /\ Len(got) = 2
              /\ got[1].lines # got[2].lines
              /\ got = UpdatesOf(received[1], p)
              /\ bursts[p] = 2
(***************************************************************************)
(* Discovery with the topology fields of the panes: what _add_pane copies    *)
(* from the enumeration into the registry, and what later runs do with it.   *)
(* The enumeration is followed for session_name; window_name, window_index,  *)
(* pane_index and title are copied in the same constructor call and nowhere  *)
(* else.                                                                     *)
(***************************************************************************)
\* TmuxPane as list_panes returns it (tmux.py:160-169)
TmuxPane(pane_id, session_name) == [pane_id |-> pane_id, session_name |-> session_name]

\* list_panes of one session, with the session name each line reports
TmuxPanesOf(topo, session) ==
    LET ids == list_panes(topo, session)
    IN [i \in 1..Len(ids) |-> TmuxPane(ids[i], session)]

\* discover_all_panes with the reported fields: the sessions' listings in order
discover_tmux_panes(topo) ==
    TmuxPanesOf(topo, SessionOrder[1]) \o TmuxPanesOf(topo, SessionOrder[2])

\* the PaneState _add_pane constructs from a listed pane
PaneStateFor(tmux_pane) ==
    [status |-> NewPaneState.status, last_output_hash |-> NewPaneState.last_output_hash,
     last_lines |-> NewPaneState.last_lines, input_request |-> NewPaneState.input_request,
     session_name |-> tmux_pane.session_name]

\* every pane is listed under at most one session
Placements ==
    {topo \in [Sessions -> SUBSET PaneIds] : topo["s1"] \cap topo["s2"] = {}}

\* a session is renamed, a window is moved to another session, a pane appears or exits
TopoChange ==
    /\ \E topo \in Placements : topo # topology /\ topology' = topo
    /\ UNCHANGED <<cliVars, mgrVars, auxVars, panes, lastCall, mode, disc, tasks, received,
                   bursts, updates>>

\* _discover_panes: the enumeration returns; the diff against the registry keys
TopoEnumerate ==
    /\ disc.pc = "idle"
    /\ LET tmux_panes == discover_tmux_panes(topology)
           current_ids == DOMAIN panes
           discovered_ids == {tmux_panes[i].pane_id : i \in 1..Len(tmux_panes)}
       IN disc' = [IdleRun EXCEPT !.pc = "apply", !.tmux_panes = tmux_panes,
                                  !.new_ids = discovered_ids \ current_ids,
                                  !.removed_ids = current_ids \ discovered_ids,
                                  !.K = current_ids]
    /\ UNCHANGED <<cliVars, mgrVars, auxVars, panes, lastCall, mode, topology, tasks, received,
                   bursts, updates>>

\* the listed panes from the loop position on that are in new_ids
TopoPendingAdds ==
    {i \in disc.idx..Len(disc.tmux_panes) : disc.tmux_panes[i].pane_id \in disc.new_ids}

\* an event is given to every callback in turn
DeliverAll(recv, ev) == [k \in DOMAIN recv |-> Append(recv[k], ev)]

\* _add_pane (polling mode) for the next listed pane that is new: the entry is
\* written and pane_discovered is emitted
TopoAdd ==
    /\ disc.pc = "apply"
    /\ TopoPendingAdds # {}
    /\ CanEmit
    /\ LET i == CHOOSE i \in TopoPendingAdds : \A j \in TopoPendingAdds : i <= j
           tmux_pane == disc.tmux_panes[i]
           ev == PaneDiscoveryEvent(tmux_pane.pane_id)
       IN /\ panes' = update(panes, tmux_pane.pane_id, PaneStateFor(tmux_pane)).panes
          /\ received' = DeliverAll(received, ev)
          /\ disc' = [disc EXCEPT !.idx = i + 1, !.cur = tmux_pane.pane_id,
                                  !.emitted = Append(@, ev)]
    /\ UNCHANGED <<cliVars, mgrVars, auxVars, lastCall, mode, topology, tasks, bursts, updates>>

\* _remove_pane for a pane of removed_ids, after the loop over the listing
TopoRemove ==
    /\ disc.pc = "apply"
    /\ TopoPendingAdds = {}
    /\ CanEmit
    /\ \E pane_id \in disc.removed_ids :
           LET ev == PaneRemovedEvent(pane_id)
           IN /\ panes' = remove(panes, pane_id).panes
              /\ received' = DeliverAll(received, ev)
              /\ disc' = [disc EXCEPT !.idx = Len(disc.tmux_panes) + 1,
                                      !.removed_ids = @ \ {pane_id}, !.cur = pane_id,
                                      !.emitted = Append(@, ev)]
    /\ UNCHANGED <<cliVars, mgrVars, auxVars, lastCall, mode, topology, tasks, bursts, updates>>

\* _discover_panes returns
TopoReturn ==
    /\ disc.pc = "apply"
    /\ TopoPendingAdds = {}
    /\ disc.removed_ids = {}
    /\ disc' = [disc EXCEPT !.pc = "idle", !.ran = TRUE]
    /\ UNCHANGED <<cliVars, mgrVars, auxVars, panes, lastCall, mode, topology, tasks, received,
                   bursts, updates>>

\* output of a tracked pane is appended to its entry meanwhile
TopoOutput ==
    \E id \in RegPaneIds, data \in ObsData :
        /\ Len(get_output(panes, id)) < max_lines
        /\ Call("append_output", id, NoArgs, append_output(panes, id, data \o <<"\n">>, max_lines))

\* the observer polling while the multiplexer has no session; the registry's
\* other callers store output and requests for a tracked pane meanwhile
TopoInit ==
    /\ panes = <<>>
    /\ lastCall = NoCall
    /\ mode = "polling"
    /\ topology = [s \in Sessions |-> {}]
    /\ disc = IdleRun
    /\ tasks = {}
    /\ received = [k \in 1..NumCallbacks |-> <<>>]
    /\ bursts = [p \in PaneIds |-> 0]
    /\ updates = [p \in PaneIds |-> 0]
    /\ CtlIdle
    /\ AuxIdle

TopoNext ==
    \/ TopoChange
    \/ TopoEnumerate
    \/ TopoAdd
    \/ TopoRemove
    \/ TopoReturn
    \/ TopoOutput
    \/ RegSetInputRequest
    \/ RegClearInputRequest

SpecTopology == TopoInit /\ [][TopoNext]_vars

\* a step of a discovery run
RunStep == disc' # disc

\* the run that ends was given tmux_pane for a pane it found tracked
ReportedTracked(tmux_pane) ==
    /\ tmux_pane.pane_id \in disc.K
    /\ tmux_pane.pane_id \in DOMAIN panes'

\* C33: no step of a discovery run changes the lines, status or input_request of
\* a pane that stays tracked, and when a run returns, every pane it found tracked
\* and listed holds the session_name the listing reported for it.
C33_TopologyRefreshed ==
    [][RunStep =>
           /\ \A p \in DOMAIN panes \cap DOMAIN panes' :
                  /\ panes'[p].last_lines = panes[p].last_lines
                  /\ panes'[p].status = panes[p].status
                  /\ panes'[p].input_request = panes[p].input_request
           /\ (disc'.pc = "idle" /\ disc'.ran) =>
                  \A i \in 1..Len(disc.tmux_panes) :
                      ReportedTracked(disc.tmux_panes[i]) =>
                          panes'[disc.tmux_panes[i].pane_id].session_name
                              = disc.tmux_panes[i].session_name]_vars

\* the part of C33 about what a run keeps
C33_RunKeepsContent ==
    [][RunStep =>
           \A p \in DOMAIN panes \cap DOMAIN panes' :
               /\ panes'[p].last_lines = panes[p].last_lines
               /\ panes'[p].status = panes[p].status
               /\ panes'[p].input_request = panes[p].input_request]_vars
(***************************************************************************)
(* The periodic discovery task: _discovery_loop around _discover_panes, with *)
(* an enumeration that can raise.                                            *)
(***************************************************************************)
\* the discovery task asleep before its first tick
DiscoveryLoop == [pc |-> "sleep", ticks |-> 0, failed |-> FALSE]

\* a run that takes a failed enumeration for an empty listing
EmptyEnumeration(r, P) ==
    [r EXCEPT !.pc = "apply", !.removed_ids = DOMAIN P, !.K = DOMAIN P]

\* _discover_panes when discover_all_panes raises: the error is logged and the
\* run returns
EnumerationError(r, P) == [r EXCEPT !.pc = "idle", !.ran = TRUE, !.K = DOMAIN P]

LoopOthers == <<cliVars, mgrVars, fn, refs, screen, api, raises, lastCall, mode, tasks,
                bursts, updates>>

\* asyncio.sleep(discovery_interval) returns and _discover_panes is called
LoopWake ==
    /\ obs.pc = "sleep"
    /\ obs.ticks < MaxTicks
    /\ obs' = [obs EXCEPT !.pc = "discover", !.ticks = @ + 1, !.failed = FALSE]
    /\ disc' = IdleRun
    /\ UNCHANGED <<LoopOthers, panes, topology, received>>

\* the enumeration of the tick returns a listing
LoopEnumerate ==
    /\ obs.pc = "discover"
    /\ ~disc.ran
    /\ TopoEnumerate

\* the enumeration of the tick raises
LoopEnumerateFailed ==
    /\ obs.pc = "discover"
    /\ disc.pc = "idle" /\ ~disc.ran
    /\ disc' = EnumerationError(IdleRun, panes)
    /\ obs' = [obs EXCEPT !.failed = TRUE]
    /\ UNCHANGED <<LoopOthers, panes, topology, received>>

\* _discover_panes has returned: the loop sleeps again
LoopSleep ==
    /\ obs.pc = "discover"
    /\ disc.pc = "idle" /\ disc.ran
    /\ obs' = [obs EXCEPT !.pc = "sleep"]
    /\ UNCHANGED <<LoopOthers, panes, topology, disc, received>>

\* the observer polling with both panes of session s1 tracked
LoopInit ==
    /\ panes = [p \in PaneIds |-> PaneStateFor(TmuxPane(p, "s1"))]
    /\ lastCall = NoCall
    /\ mode = "polling"
    /\ topology = [s \in Sessions |-> IF s = "s1" THEN PaneIds ELSE {}]
    /\ disc = IdleRun
    /\ tasks = {}
    /\ received = [k \in 1..NumCallbacks |-> <<>>]
    /\ bursts = [p \in PaneIds |-> 0]
    /\ updates = [p \in PaneIds |-> 0]
    /\ CtlIdle
    /\ obs = DiscoveryLoop
    /\ fn = <<>>
    /\ refs = <<>>
    /\ screen = <<>>
    /\ api = <<>>
    /\ raises = <<>>

LoopNext ==
    \/ TopoChange
    \/ LoopWake
    \/ LoopEnumerate
    \/ LoopEnumerateFailed
    \/ TopoAdd
    \/ TopoRemove
    \/ TopoReturn
    \/ LoopSleep

\* a sleep that is over returns, and a run that has returned lets the loop go on
LoopFairness == WF_vars(LoopWake) /\ WF_vars(LoopSleep)

SpecDiscoveryLoop == LoopInit /\ [][LoopNext]_vars /\ LoopFairness

\* the tick's enumeration has failed, or fails in this step
InFailedRun == obs.failed \/ obs'.failed

\* C34: from the step in which a tick's enumeration fails until the loop wakes
\* again, the registry's key set does not change and no callback is given an
\* event, and the discovery task goes on: after a failed tick that is not the last
\* one followed, a later tick starts.
C34_FailedEnumerationHarmless ==
    /\ [][InFailedRun =>
              /\ DOMAIN panes' = DOMAIN panes
              /\ received' = received
              /\ obs'.pc \in {"sleep", "discover"}]_vars
    /\ \A n \in 1..(MaxTicks - 1) :
           (obs.failed /\ obs.ticks = n) ~> (obs.ticks > n)

\* the enumeration of a tick failed while the multiplexer no longer listed a
\* tracked pane, the run returned with both panes still tracked, and the next
\* tick's run has started
C34_TickAfterFailure ==
    /\ obs # <<>> /\ "failed" \in DOMAIN obs
    /\ obs.ticks = 2 /\ ~obs.failed /\ obs.pc = "discover"
    /\ disc.pc = "apply" /\ disc.removed_ids # {}
    /\ received[1] = <<>>
    /\ DOMAIN panes = PaneIds
(***************************************************************************)
(* append_output over a sequence of chunks.                                  *)
(***************************************************************************)
\* append_output calls followed in one behaviour
MaxAppends == 3

\* the entries the calls start from: any stored rows (update_output stores what it
\* is given, also one row above the cap) with any stored fingerprint
AppendStarts ==
    {[NewPaneState EXCEPT !.last_lines = L, !.last_output_hash = h] :
         L \in SeqsUpTo(TextLines, max_lines + 1), h \in Hashes}

AppendOthers == <<lastCall, obsVars, cliVars, mgrVars, obs, refs, screen, api, raises>>

\* append_output(pane_id, new_data) with the default max_lines
FnAppend ==
    /\ fn.calls < MaxAppends
    /\ \E data \in DataChunks :
           LET r == append_output(panes, fn.pane_id, data, max_lines)
           IN /\ panes' = r.panes
              /\ fn' = [fn EXCEPT !.calls = @ + 1, !.data = @ \o data, !.ret = r.ret,
                                  !.nonempty = @ \/ data # <<>>]
    /\ UNCHANGED AppendOthers

\* a registry that is empty or holds the pane, before the first call
AppendInit ==
    /\ \/ panes = <<>>
       \/ \E st \in AppendStarts : panes = [p \in RegPaneIds |-> st]
    /\ fn = [pane_id |-> "%0", start |-> panes, calls |-> 0, data |-> <<>>, ret |-> TRUE,
             nonempty |-> FALSE]
    /\ lastCall = NoCall
    /\ ObsIdle
    /\ CtlIdle
    /\ obs = <<>>
    /\ refs = <<>>
    /\ screen = <<>>
    /\ api = <<>>
    /\ raises = <<>>

AppendNext == FnAppend

SpecAppend == AppendInit /\ [][AppendNext]_vars

\* rows L with text appended once: the text after the rows' own text is split at
\* the newlines and the oldest rows beyond the cap are dropped
AppendedOnce(L, text) ==
    IF text = <<>> THEN L
    ELSE IF L = <<>> THEN LastN(Split(text), max_lines)
    ELSE LastN(Split(Join(L) \o text), max_lines)

\* the stored rows after the calls so far are the start's rows with the
\* concatenated chunks appended once, and every call returned true
LinesConcatenate ==
    /\ fn.ret
    /\ panes[fn.pane_id].last_lines
           = AppendedOnce(fn.start[fn.pane_id].last_lines, fn.data)
    /\ panes[fn.pane_id].last_lines
           = append_output(fn.start, fn.pane_id, fn.data, max_lines).panes[fn.pane_id].last_lines

\* C35: after one or more append_output calls for a registered pane the stored
\* rows are the rows obtained by appending the concatenation of the chunks once,
\* and the stored hash is empty; for an unknown pane every call returns false and
\* the registry is as it was.
C35_AppendSequence ==
    fn.calls >= 1 =>
        IF fn.pane_id \in DOMAIN fn.start
        THEN /\ LinesConcatenate
             /\ panes[fn.pane_id].last_output_hash = ""
        ELSE ~fn.ret /\ panes = fn.start

\* the claim with the hash cleared once a chunk that is not empty was appended
C35_LinesAndHashAfterData ==
    fn.calls >= 1 =>
        IF fn.pane_id \in DOMAIN fn.start
        THEN /\ LinesConcatenate
             /\ fn.nonempty => panes[fn.pane_id].last_output_hash = ""
             /\ ~fn.nonempty => panes = fn.start
        ELSE ~fn.ret /\ panes = fn.start
(***************************************************************************)
(* Sessions that appear while the manager runs: what starts a refresh.       *)
(* refresh_sessions is called from _handle_session_change only, the          *)
(* on_session_change callback of the manager's own clients.                  *)
(***************************************************************************)
\* sessions created and closed in the multiplexer in one behaviour
MaxSessionEvents == 4

\* a client of the manager is attached and reading the multiplexer's notifications
Attached(m) == \E c \in Sessions : m.client_running[c] /\ m.reader[c] = "reading"

\* a session is created in the multiplexer and stays; the attached clients are
\* sent %sessions-changed, and _handle_session_change creates a refresh task
AttSessionAppears ==
    /\ mgr.changes < MaxSessionEvents
    /\ \E s \in Sessions \ mgr.live :
           mgr' = [mgr EXCEPT !.live = @ \cup {s}, !.changes = @ + 1,
                              !.refresh_tasks = IF Attached(mgr) THEN @ + 1 ELSE @]
    /\ UNCHANGED MgrOthers

\* a session the manager has no client for, and that no run in progress has
\* listed, is closed in the multiplexer; the attached clients are notified as well
AttSessionCloses ==
    /\ mgr.changes < MaxSessionEvents
    /\ \E s \in mgr.live \ mgr.clients :
           /\ mgr.ref_pc \in {"idle", "listing"} \/ s \notin mgr.ref_sessions
           /\ mgr' = [mgr EXCEPT !.live = @ \ {s}, !.changes = @ + 1,
                                 !.refresh_tasks = IF Attached(mgr) THEN @ + 1 ELSE @]
    /\ UNCHANGED MgrOthers

\* a created refresh task runs refresh_sessions: nothing when the manager is not
\* running, else _discover_and_connect begins (list-sessions)
AttRefreshRuns ==
    /\ mgr.refresh_tasks > 0
    /\ mgr.ref_pc = "idle"
    /\ mgr' = [mgr EXCEPT !.refresh_tasks = @ - 1,
                          !.ref_pc = IF mgr.running THEN "listing" ELSE @]
    /\ UNCHANGED MgrOthers

\* _create_client with a spawn that succeeds
AttSpawned ==
    /\ MgrRefSpawned
    /\ mgr.ref_cur \in mgr'.clients

AttNext ==
    \/ AttSessionAppears
    \/ AttSessionCloses
    \/ MgrStart
    \/ AttRefreshRuns
    \/ MgrRefListed
    \/ MgrRefLocked
    \/ MgrRefStep
    \/ AttSpawned

\* every coroutine that can run is run, and the owner starts the manager
AttFairness ==
    /\ WF_vars(MgrStart)
    /\ WF_vars(AttRefreshRuns)
    /\ WF_vars(MgrRefListed)
    /\ WF_vars(MgrRefLocked)
    /\ WF_vars(MgrRefStep)
    /\ WF_vars(AttSpawned)

SpecAttach == MgrInit /\ [][AttNext]_vars /\ AttFairness

\* the multiplexer's session list has stopped changing
Settled == mgr.changes = MaxSessionEvents

\* C36: every session the multiplexer lists while the manager runs, and goes on
\* listing, eventually has a started client registered in the manager, under
\* fair scheduling and with every spawn succeeding.
C36_ListedSessionGetsClient ==
    \A s \in Sessions :
        (mgr.running /\ Settled /\ s \in mgr.live)
            ~> (s \in mgr.clients /\ mgr.client_running[s])

\* a session that is listed when start() lists the sessions gets its client
C36_ListedAtStartGetsClient ==
    \A s \in Sessions :
        (mgr.ref_pc = "wait_lock" /\ mgr.runs = 1 /\ Settled /\ s \in mgr.ref_sessions)
            ~> (s \in mgr.clients /\ mgr.client_running[s])

\* a session that appears while a client is attached gets its client
C36_AppearsWhileAttachedGetsClient ==
    \A s \in Sessions :
        (mgr.running /\ Settled /\ s \in mgr.live /\ mgr.refresh_tasks > 0)
            ~> (s \in mgr.clients /\ mgr.client_running[s])
(***************************************************************************)
(* What the registry holds after a streaming capture.                        *)
(***************************************************************************)
\* _add_pane's initial capture returns in this step
InitialCaptureReturns == disc.pc = "add_capture" /\ disc'.pc = "emit"

\* the debounce tasks that give their pane_update to the first callback in this step
Emitting == {t \in tasks' \ tasks : t.pc = "emit" /\ t.cb = 1}

\* after the initial capture of a newly discovered pane the stored rows are the
\* captured rows
C37_InitialCaptureStored ==
    [][(mode = "control_mode" /\ InitialCaptureReturns) =>
           panes'[disc.cur].last_lines = screen.content]_vars

\* after an emission the stored rows are the rows of the emitted pane_update
C37_EmissionStored ==
    [][mode = "control_mode" =>
           \A t \in Emitting : panes'[t.pane].last_lines = t.ev.lines]_vars

\* C37: in streaming mode, with captures that succeed, the rows stored for a pane
\* after a pane-update emission are the rows of the emitted pane_update, and the
\* rows stored after the initial capture of a newly discovered pane are the
\* captured rows.
C37_CaptureStored ==
    [][mode = "control_mode" =>
           /\ InitialCaptureReturns => panes'[disc.cur].last_lines = screen.content
           /\ \A t \in Emitting : panes'[t.pane].last_lines = t.ev.lines]_vars
(***************************************************************************)
(* A request that was answered.  The program in the pane prints one marker   *)
(* block; the user answers it through the input route; the program goes on   *)
(* printing below the block, which stays in the captured rows.               *)
(***************************************************************************)
\* marker blocks the program prints in one behaviour
MaxBlocks == 1
\* rows the program prints below the block
MaxRowsBelow == 1

AskBlock == << <<INPUT_MARKER>>, <<"PROMPT:", "a">> >>

\* the pane shows a plain row; no block was printed and none answered
PlainScreen == [content |-> << <<"a">> >>, blocks |-> 0, answered |-> 0, below |-> 0]

AnsOthers == <<cliVars, mgrVars, obs, fn, refs, raises, lastCall, mode, topology, disc>>

\* the pane's output reaches the observer: in control mode the session client
\* reads %output and _handle_control_mode_output runs
OutputSeen ==
    IF mode = "control_mode"
    THEN \E data \in ObsData : HandleOutputFor(StatusPane, data)
    ELSE UNCHANGED <<panes, tasks, bursts>>

\* the program prints a marker block
AnsProgramAsks ==
    /\ screen.blocks < MaxBlocks
    /\ screen' = [screen EXCEPT !.content = AskBlock, !.blocks = @ + 1, !.below = 0]
    /\ OutputSeen
    /\ UNCHANGED <<AnsOthers, api, received, updates>>

\* the program prints a row below the block (the echo of the answer, or what it
\* prints next); the block is still among the rows
AnsProgramPrints ==
    /\ screen.blocks > 0
    /\ screen.below < MaxRowsBelow
    /\ screen' = [screen EXCEPT !.content = @ \o << <<"a">> >>, !.below = @ + 1]
    /\ OutputSeen
    /\ UNCHANGED <<AnsOthers, api, received, updates>>

\* send_keys returned to the input route: on success the request is cleared, and
\* every block printed so far counts as answered
AnsInputSent ==
    /\ \E t \in tasks, success \in BOOLEAN :
           /\ InputSent(t, success)
           /\ screen' = IF success THEN [screen EXCEPT !.answered = screen.blocks]
                        ELSE screen
    /\ UNCHANGED <<AnsOthers, bursts, received, updates>>

AnsInit ==
    /\ panes = [p \in {StatusPane} |-> NewPaneState]
    /\ lastCall = NoCall
    /\ mode \in {"control_mode", "polling"}
    /\ topology = [s \in Sessions |-> IF s = "s1" THEN {StatusPane} ELSE {}]
    /\ disc = IdleRun
    /\ tasks = {}
    /\ received = [k \in 1..NumCallbacks |-> <<>>]
    /\ bursts = [p \in PaneIds |-> 0]
    /\ updates = [p \in PaneIds |-> 0]
    /\ CtlIdle
    /\ obs = <<>>
    /\ fn = <<>>
    /\ refs = <<>>
    /\ screen = PlainScreen
    /\ api = NoRequest
    /\ raises = <<>>

AnsNext ==
    \/ AnsProgramAsks
    \/ AnsProgramPrints
    \/ TimerExpire
    \/ CaptureDone
    \/ CursorDone
    \/ EmitReturn
    \/ PollStart
    \/ PollCaptureDone
    \/ PollCursorDone
    \/ PollEmitReturn
    \/ ApiSendInput
    \/ AnsInputSent

SpecAnswered == AnsInit /\ [][AnsNext]_vars

\* a capture of the rows as they are now is processed in this step
ProcessesCurrentRows ==
    \E t \in tasks' \ tasks :
        t.pc \in {"emit", "poll_emit"} /\ t.cb = 1 /\ t.ev.lines = screen.content

\* C38: once the input route has cleared the request of the pane, processing a
\* capture of rows in which every marker block is an answered one does not put
\* the pane into waiting_input; the pane waits for input only while a block
\* newer than the last answer is in its output.
C38_AnsweredBlockStaysAnswered ==
    [][(screen.answered = screen.blocks /\ screen.answered > 0 /\ ProcessesCurrentRows) =>
           panes'[StatusPane].status # "waiting_input"]_vars

\* C38 read for captures taken after the answer with unchanged rows in polling mode
C38_UnchangedRowsStayAnswered ==
    [][(mode = "polling" /\ screen.answered = screen.blocks /\ screen.answered > 0
        /\ screen.below = 0) =>
           panes'[StatusPane].status = panes[StatusPane].status]_vars
(***************************************************************************)
(* The disconnect handler of a client that is no longer the session's newest *)
(***************************************************************************)
\* the handler of an earlier client of session s takes its turn in this step,
\* after a newer client of the session was registered
StaleDisconnectHandled(s) ==
    /\ mgr.lock = Task("orphan", s)
    /\ mgr'.lock # mgr.lock

\* the stale handler leaves the newer client registered and schedules no reconnect
C39_StaleHandlerKeepsNewer ==
    [][\A s \in Sessions :
           StaleDisconnectHandled(s) =>
               /\ s \in mgr'.clients
               /\ ReconnectTask(mgr', s) = ReconnectTask(mgr, s)]_vars

\* every running client is registered
C39_RunningIsRegistered ==
    [][\A s \in Sessions : mgr'.client_running[s] => s \in mgr'.clients]_vars

\* no client was started for a session whose earlier child was still alive
C39_OneChildPerSession == [][mgr'.leaked = {}]_vars

\* C39: the disconnect handler of an earlier client of a session, run after a
\* newer client was registered under the name, leaves the newer client
\* registered and schedules no reconnect; every running client is registered in
\* the manager's map; and no session has two clients with a live child.
C39_HandlerRemovesOwnClientOnly ==
    [][\A s \in Sessions :
           /\ StaleDisconnectHandled(s) =>
                  /\ s \in mgr'.clients
                  /\ ReconnectTask(mgr', s) = ReconnectTask(mgr, s)
           /\ mgr'.client_running[s] => s \in mgr'.clients
           /\ s \notin mgr'.leaked]_vars
(***************************************************************************)
(* Two discovery runs at once in streaming mode: the run of the periodic     *)
(* tick (_discovery_loop) and the run of _handle_sessions_changed.  Each run *)
(* keeps its own listing and its own new_ids / removed_ids; a run is         *)
(* suspended while it awaits the capture of a pane it added and while it     *)
(* awaits the callbacks of an event.  The registry's lock is never held      *)
(* across a suspension, so the registry calls of a run do not suspend it.    *)
(***************************************************************************)
Runs == {"tick", "notified"}

\* the PaneState _add_pane constructs, with the run that constructed it
CreatedBy(r) ==
    [status |-> NewPaneState.status, last_output_hash |-> NewPaneState.last_output_hash,
     last_lines |-> NewPaneState.last_lines, input_request |-> NewPaneState.input_request,
     by |-> r]

OvOthers == <<cliVars, mgrVars, obs, refs, screen, api, raises, lastCall, mode, tasks,
              bursts, updates>>

\* the listed panes of run record run from its loop position on that are in new_ids
PendingAdds(run) ==
    {i \in run.idx..Len(run.tmux_panes) : run.tmux_panes[i] \in run.new_ids}

\* run r goes on from registry P up to its next suspension: the next new pane is
\* registered and its capture awaited; after the new panes each removed pane is
\* dropped and pane_removed emitted; then the run returns
OvContinue(P, r, run) ==
    IF PendingAdds(run) # {}
    THEN LET i == CHOOSE i \in PendingAdds(run) : \A j \in PendingAdds(run) : i <= j
             pane_id == run.tmux_panes[i]
         IN /\ panes' = update(P, pane_id, CreatedBy(r)).panes
            /\ disc' = [disc EXCEPT ![r] = [run EXCEPT !.pc = "add_capture", !.idx = i + 1,
                                                       !.cur = pane_id]]
            /\ received' = received
    ELSE IF run.removed_ids # {}
    THEN \E pane_id \in run.removed_ids :
             /\ panes' = remove(P, pane_id).panes
             /\ received' = DeliverAll(received, PaneRemovedEvent(pane_id))
             /\ disc' = [disc EXCEPT ![r] = [run EXCEPT !.pc = "emit",
                                                       !.idx = Len(run.tmux_panes) + 1,
                                                       !.removed_ids = @ \ {pane_id},
                                                       !.cur = pane_id]]
    ELSE /\ panes' = P
         /\ disc' = [disc EXCEPT ![r] = [run EXCEPT !.pc = "idle", !.ran = TRUE]]
         /\ received' = received

\* _discover_panes of run r: the enumeration returns; the diff against the
\* registry keys
OvEnumerate ==
    /\ \E r \in Runs :
           /\ disc[r].pc = "idle"
           /\ LET tmux_panes == discover_all_panes(topology)
                  current_ids == DOMAIN panes
              IN OvContinue(panes, r,
                            [IdleRun EXCEPT !.tmux_panes = tmux_panes,
                                            !.new_ids = Ids(tmux_panes) \ current_ids,
                                            !.removed_ids = current_ids \ Ids(tmux_panes),
                                            !.K = current_ids])
    /\ UNCHANGED <<OvOthers, topology, fn>>

\* _add_pane of run r: the initial capture returns or raises, and pane_discovered
\* is emitted
OvCaptureDone ==
    /\ \E r \in Runs, res \in CaptureResults :
           /\ disc[r].pc = "add_capture"
           /\ panes' = IF res = CaptureFailed THEN panes
                       ELSE update_output(panes, disc[r].cur, res, "").panes
           /\ received' = DeliverAll(received, PaneDiscoveryEvent(disc[r].cur))
           /\ disc' = [disc EXCEPT ![r].pc = "emit"]
    /\ UNCHANGED <<OvOthers, topology, fn>>

\* _emit_event of run r has returned
OvEmitted ==
    /\ \E r \in Runs :
           /\ disc[r].pc = "emit"
           /\ OvContinue(panes, r, disc[r])
    /\ UNCHANGED <<OvOthers, topology, fn>>

\* a pane that has not existed before appears in session s1
OvAppear ==
    /\ \E p \in PaneIds :
           /\ fn.appeared[p] = 0
           /\ topology' = [topology EXCEPT !["s1"] = @ \cup {p}]
           /\ fn' = [fn EXCEPT !.appeared[p] = 1]
    /\ UNCHANGED <<OvOthers, panes, disc, received>>

\* a pane exits
OvVanish ==
    /\ \E p \in topology["s1"] :
           /\ topology' = [topology EXCEPT !["s1"] = @ \ {p}]
           /\ fn' = [fn EXCEPT !.vanished[p] = 1]
    /\ UNCHANGED <<OvOthers, panes, disc, received>>

\* the observer streaming, no pane yet, no run in progress
OvInit ==
    /\ panes = <<>>
    /\ lastCall = NoCall
    /\ mode = "control_mode"
    /\ topology = [s \in Sessions |-> {}]
    /\ disc = [r \in Runs |-> IdleRun]
    /\ tasks = {}
    /\ received = [k \in 1..NumCallbacks |-> <<>>]
    /\ bursts = [p \in PaneIds |-> 0]
    /\ updates = [p \in PaneIds |-> 0]
    /\ CtlIdle
    /\ obs = <<>>
    /\ fn = [appeared |-> [p \in PaneIds |-> 0], vanished |-> [p \in PaneIds |-> 0]]
    /\ refs = <<>>
    /\ screen = <<>>
    /\ api = <<>>
    /\ raises = <<>>

OvNext ==
    \/ OvAppear
    \/ OvVanish
    \/ OvEnumerate
    \/ OvCaptureDone
    \/ OvEmitted

SpecOverlap == OvInit /\ [][OvNext]_vars

\* C40: with two discovery runs in progress at once, a pane that appeared once has
\* at most one pane_discovered event and a pane that disappeared once at most one
\* pane_removed event (none before it appeared or disappeared), and a registry
\* entry that stays is the one its run created.
C40_OverlappingRuns ==
    [][/\ \A p \in DOMAIN panes \cap DOMAIN panes' : panes'[p].by = panes[p].by
       /\ \A p \in PaneIds :
              /\ CountEv(received'[1], "pane_discovered", p) <= fn'.appeared[p]
              /\ CountEv(received'[1], "pane_removed", p) <= fn'.vanished[p]]_vars

\* the registry entry a run created is not replaced
C40_EntryNotReplaced ==
    [][\A p \in DOMAIN panes \cap DOMAIN panes' : panes'[p].by = panes[p].by]_vars

\* no second pane_discovered for a pane
C40_OneDiscovered ==
    \A p \in PaneIds : CountEv(received[1], "pane_discovered", p) <= fn.appeared[p]

\* no second pane_removed for a pane
C40_OneRemoved ==
    \A p \in PaneIds : CountEv(received[1], "pane_removed", p) <= fn.vanished[p]

\* with a single pane appearing and disappearing, overlapping runs report it once
C40_SinglePaneOnce ==
    (fn.appeared["%1"] = 0) =>
        /\ CountEv(received[1], "pane_discovered", "%0") <= fn.appeared["%0"]
        /\ \A k \in DOMAIN panes : panes[k].by \in Runs
====
